---- MODULE Spec2Model ----
(***************************************************************************)
(* A model of the Jeux Tic-Tac-Toe game server: the game, the invitation   *)
(* state machine, the player ratings, the per-connection CLIENT objects,   *)
(* the two registries and the per-connection service loop.                 *)
(*                                                                         *)
(* Objects live in heaps (sequences) and are named by their index, the     *)
(* model's pointer; NULL is 0.  A CLIENT is named by the number of the     *)
(* connection it was created for.  Text (move strings, board dumps) is a   *)
(* sequence of one-character strings.                                      *)
(***************************************************************************)
EXTENDS Integers, Sequences, FiniteSets, TLC

VARIABLES
    clients,    \* CLIENT objects: [player, inviteHead, invites, count]
    invs,       \* INVITATION objects, in order of creation
    games,      \* GAME objects, in order of creation
    players,    \* PLAYER objects in the player registry: [name, rating]
    creg,       \* the client registry: [numClients, clients]
    conn,       \* per connection: state of the socket
    pc,         \* per connection: position of its service thread
    loggedIn,   \* per connection: the service loop's local flag
    pending,    \* per connection: payload of the LOGIN being processed
    waitingForEmpty,    \* the flag of creg_wait_for_empty
    wpc,        \* per caller of creg_wait_for_empty: its position
    work        \* per connection: what its thread keeps of a request under way

vars == <<clients, invs, games, players, creg, conn, pc, loggedIn, pending,
          waitingForEmpty, wpc, work>>

----------------------------------------------------------------------------
(* Bounds of the model *)

NumConns == 2       \* connections accepted during a run
MaxInvs == 2        \* invitations alive at a time
MaxGames == 1       \* games created during a run
MaxWrites == 1      \* most writes of one step that a dying socket may still take
MaxHangups == 1     \* connections that end during a run
MAX_CLIENTS == 2    \* slots of the client registry
NumWaiters == 2     \* threads that call creg_wait_for_empty at the shutdown
MaxRatingGap == 100 \* most a rating moves from the initial rating

(* Program constants *)

NULL == 0
PLAYER_INITIAL_RATING == 1500

NULL_ROLE == 0
FIRST_PLAYER_ROLE == 1
SECOND_PLAYER_ROLE == 2

INV_OPEN_STATE == 0
INV_ACCEPTED_STATE == 1
INV_CLOSED_STATE == 2

Conns == 1..NumConns
Waiters == 1..NumWaiters

\* no request under way: the locals of the service loop hold nothing
NoReq == [type |-> "", id |-> 0, text |-> <<>>, target |-> NULL,
          sourceRole |-> NULL_ROLE, targetRole |-> NULL_ROLE]
Names == [k \in Conns |-> <<"alice", "bob", "carol", "dave">>[k]]

----------------------------------------------------------------------------
(* Game *)

\* character codes of the characters that start the move texts of the model
Ord(ch) ==
    CASE ch = "1" -> 49 [] ch = "2" -> 50 [] ch = "3" -> 51
      [] ch = "4" -> 52 [] ch = "5" -> 53 [] ch = "6" -> 54
      [] ch = "7" -> 55 [] ch = "8" -> 56 [] ch = "9" -> 57
      [] ch = "0" -> 48 [] ch = ":" -> 58 [] ch = "a" -> 97

game_create ==
    [game_board |-> [i \in 0..8 |-> -1], isOver |-> 0,
     winner |-> NULL_ROLE, count |-> 1, expectedPiece |-> 1]

\* game_unref: at count 0 the GAME is freed
game_unref(game) == [game EXCEPT !.count = @ - 1]

\* The lines with the second diagonal taken for the squares 2, 4, 7
WinLines_bent_diagonal ==
    << <<0, 4, 8>>, <<2, 4, 7>>,
       <<0, 1, 2>>, <<0, 3, 6>>, <<3, 4, 5>>, <<1, 4, 7>>,
       <<6, 7, 8>>, <<2, 5, 8>> >>

\* The eight lines in the order game_apply_move examines them: the two
\* diagonals, then row i and column j for (i, j) = (0,0), (3,1), (6,2).
WinLines ==
    << <<0, 4, 8>>, <<2, 4, 6>>,
       <<0, 1, 2>>, <<0, 3, 6>>, <<3, 4, 5>>, <<1, 4, 7>>,
       <<6, 7, 8>>, <<2, 5, 8>> >>

LineComplete(board, l) ==
    /\ board[l[1]] # -1
    /\ board[l[1]] = board[l[2]]
    /\ board[l[2]] = board[l[3]]

\* game_apply_move without the test of the piece against the turn
game_apply_move_any_piece(game, move) ==
    IF \/ game.isOver # 0
       \/ game.game_board[move.placement - 1] # -1
    THEN [ret |-> -1, game |-> game]
    ELSE [ret |-> 0,
          game |-> [game EXCEPT !.game_board[move.placement - 1] = move.piece,
                                !.expectedPiece = 1 - game.expectedPiece]]

\* game_apply_move: the returned record holds the return value and the game
game_apply_move(game, move) ==
    IF \/ game.isOver # 0
       \/ game.game_board[move.placement - 1] # -1
       \/ game.expectedPiece # move.piece
    THEN [ret |-> -1, game |-> game]
    ELSE
      LET board == [game.game_board EXCEPT ![move.placement - 1] = move.piece]
          hits == {k \in 1..8 : LineComplete(board, WinLines[k])}
          first == CHOOSE k \in hits : \A m \in hits : k <= m
          cleared == \A i \in 0..8 : board[i] # -1
          g1 == [game EXCEPT !.game_board = board,
                             !.expectedPiece = 1 - game.expectedPiece]
      IN  IF hits # {}
          THEN [ret |-> 0,
                game |-> [g1 EXCEPT !.isOver = 1,
                                    !.winner = IF board[WinLines[first][1]] = 1
                                               THEN FIRST_PLAYER_ROLE
                                               ELSE SECOND_PLAYER_ROLE]]
          ELSE IF cleared
          THEN [ret |-> 0, game |-> [g1 EXCEPT !.isOver = 1, !.winner = NULL_ROLE]]
          ELSE [ret |-> 0, game |-> g1]

\* game_resign with the resigning role made the winner
game_resign_to_self(game, role) ==
    IF game.isOver # 0
    THEN [ret |-> -1, game |-> game]
    ELSE [ret |-> 0,
          game |-> [game EXCEPT !.isOver = 1,
                                !.winner = IF role = FIRST_PLAYER_ROLE
                                           THEN FIRST_PLAYER_ROLE
                                           ELSE SECOND_PLAYER_ROLE]]

\* game_resign without the test of isOver
game_resign_when_over(game, role) ==
    [ret |-> 0,
     game |-> [game EXCEPT !.isOver = 1,
                           !.winner = IF role = FIRST_PLAYER_ROLE
                                      THEN SECOND_PLAYER_ROLE
                                      ELSE FIRST_PLAYER_ROLE]]

game_resign(game, role) ==
    IF game.isOver # 0
    THEN [ret |-> -1, game |-> game]
    ELSE [ret |-> 0,
          game |-> [game EXCEPT !.isOver = 1,
                                !.winner = IF role = FIRST_PLAYER_ROLE
                                           THEN SECOND_PLAYER_ROLE
                                           ELSE FIRST_PLAYER_ROLE]]

game_is_over(game) == game.isOver

game_get_winner(game) == game.winner

\* game_parse_move: the GAME_MOVE [piece, placement], or no move (null);
\* the role is not used
game_parse_move(game, role, str) ==
    LET placement == Ord(str[1]) - 48
        letters == {i \in 2..Len(str) : str[i] \in {"x", "X", "o", "O"}}
        i0 == CHOOSE i \in letters : \A m \in letters : i <= m
    IN  IF placement <= 0 /\ placement >= 10
        THEN [null |-> TRUE, piece |-> -1, placement |-> placement]
        ELSE IF letters = {}
        THEN [null |-> TRUE, piece |-> -1, placement |-> placement]
        ELSE [null |-> FALSE,
              piece |-> IF str[i0] \in {"x", "X"} THEN 1 ELSE 0,
              placement |-> placement]

\* the digit with the character code
Chr(n) ==
    CASE n = 49 -> "1" [] n = 50 -> "2" [] n = 51 -> "3"
      [] n = 52 -> "4" [] n = 53 -> "5" [] n = 54 -> "6"
      [] n = 55 -> "7" [] n = 56 -> "8" [] n = 57 -> "9"

\* game_unparse_move with X written for either piece
game_unparse_move_always_X(move) ==
    <<Chr(move.placement + 48), "-", ">", "X">>

\* game_unparse_move: the digit of the square, "->", and X for piece 1, O
\* for any other
game_unparse_move(move) ==
    <<Chr(move.placement + 48), "-", ">", IF move.piece = 1 THEN "X" ELSE "O">>

\* game_unparse_state: the 29 characters of the board dump
game_unparse_state(game) ==
    [i \in 1..29 |->
        IF i % 6 = 0 THEN "\n"
        ELSE IF ((i - 1) \div 6) % 2 = 1 THEN "-"
        ELSE IF i % 2 = 0 THEN "|"
        ELSE LET gamePiece == game.game_board[3 * ((i - 1) \div 12) + ((i - 1) % 6) \div 2]
             IN  IF gamePiece = -1 THEN " "
                 ELSE IF gamePiece = 1 THEN "X" ELSE "O"]

----------------------------------------------------------------------------
(* Player *)

\* (int)(32.0 * (S - E)) of player_post_result, E = 1/(1 + 10^(D/400)) held in
\* a float, for the rating difference D = opponent - self in -200..200: the
\* value at D = -200 and the differences at which it grows by one.
EloStepsCommon == {-190, -162, -136, -112, -88, -65, -43, -21,
                   22, 44, 66, 89, 113, 137, 163, 191}

EloDelta(D, S2) ==   \* S2 is twice the score: 0, 1 or 2
    CASE S2 = 2 -> 7 + Cardinality({t \in EloStepsCommon \cup {0} : t <= D})
      [] S2 = 1 -> -8 + Cardinality({t \in EloStepsCommon : t <= D})
      [] S2 = 0 -> -24 + Cardinality({t \in EloStepsCommon \cup {1} : t <= D})

\* player_post_result with the rating of player2 left as it is
player_post_result_first_only(ps, p1, p2, result) ==
    LET S1 == IF result = 0 THEN 1 ELSE IF result = 1 THEN 2 ELSE 0
        R1 == ps[p1].rating
        R2 == ps[p2].rating
    IN  [ps EXCEPT ![p1].rating = R1 + EloDelta(R2 - R1, S1)]

\* player_post_result on the PLAYER heap ps; p1 and p2 may be the same object
player_post_result(ps, p1, p2, result) ==
    LET S1 == IF result = 0 THEN 1 ELSE IF result = 1 THEN 2 ELSE 0
        S2 == IF result = 0 THEN 1 ELSE IF result = 1 THEN 0 ELSE 2
        R1 == ps[p1].rating
        R2 == ps[p2].rating
        newR1 == R1 + EloDelta(R2 - R1, S1)
        newR2 == R2 + EloDelta(R1 - R2, S2)
        ps1 == [ps EXCEPT ![p1].rating = newR1]
    IN  [ps1 EXCEPT ![p2].rating = newR2]

----------------------------------------------------------------------------
(* The heap a request handler works on: the objects, the number w[c] of    *)
(* packets written to connection c so far in this step, the number b[c] of *)
(* writes that connection still takes in this step (-1: all of them), and  *)
(* the packets written so far.                                             *)

Ret(h, r) == [h |-> h, ret |-> r]

\* proto_send_packet under client_send_packet: the write fails once the
\* socket takes no more; the packet is logged with its outcome, and with
\* whether the CLIENT whose mutex and fd are used was still allocated
client_send_packet(h, to, type, id, role, data) ==
    LET ok == h.b[to] = -1 \/ h.w[to] < h.b[to]
        pkt == [to |-> to, type |-> type, id |-> id, role |-> role,
                data |-> data, ok |-> ok, live |-> h.clients[to].count > 0]
    IN  Ret([h EXCEPT !.w[to] = @ + 1, !.out = Append(@, pkt)],
            IF ok THEN 0 ELSE -1)

\* client_ref, client_unref: at count 0 the CLIENT is freed
client_ref(h, client) == [h EXCEPT !.clients[client].count = @ + 1]

client_unref(h, client) == [h EXCEPT !.clients[client].count = @ - 1]

(* Invitation *)

\* inv_create: ret is the new INVITATION, NULL when source = target
inv_create(h, source, target, source_role, target_role) ==
    IF source = target
    THEN Ret(h, NULL)
    ELSE LET invitation == [source |-> source, target |-> target,
                            source_role |-> source_role,
                            target_role |-> target_role,
                            state |-> INV_OPEN_STATE, game |-> NULL,
                            count |-> 1]
             free == {k \in 1..Len(h.invs) : h.invs[k].count = 0}
             k0 == CHOOSE k \in free : \A m \in free : k <= m
             h1 == client_ref(client_ref(h, source), target)
         IN  \* malloc: the memory of a freed INVITATION is taken again
             IF free # {}
             THEN Ret([h1 EXCEPT !.invs[k0] = invitation], k0)
             ELSE Ret([h1 EXCEPT !.invs = Append(@, invitation)], Len(h.invs) + 1)

inv_ref(h, inv) == [h EXCEPT !.invs[inv].count = @ + 1]

\* inv_unref: at count 0 the INVITATION is freed, and its source, its target
\* and its GAME unreferenced
inv_unref(h, inv) ==
    LET i == h.invs[inv]
        h1 == client_unref(client_unref(h, i.source), i.target)
    IN
    IF i.count - 1 # 0
    THEN [h EXCEPT !.invs[inv].count = @ - 1]
    ELSE IF i.game # NULL
    THEN [h1 EXCEPT !.invs[inv].count = 0, !.games[i.game] = game_unref(@)]
    ELSE [h1 EXCEPT !.invs[inv].count = 0]

inv_get_source(h, inv) == h.invs[inv].source
inv_get_target(h, inv) == h.invs[inv].target
inv_get_source_role(h, inv) == h.invs[inv].source_role
inv_get_target_role(h, inv) == h.invs[inv].target_role
inv_get_game(h, inv) == h.invs[inv].game

inv_accept(h, inv) ==
    IF h.invs[inv].state # INV_OPEN_STATE
    THEN Ret(h, -1)
    ELSE Ret([h EXCEPT !.invs[inv].state = INV_ACCEPTED_STATE,
                       !.invs[inv].game = Len(h.games) + 1,
                       !.games = Append(@, game_create)], 0)

\* inv_close without the test of the role
inv_close_any_role(h, inv, role) ==
    LET i == h.invs[inv] IN
    IF i.state # INV_OPEN_STATE /\ i.state # INV_ACCEPTED_STATE
    THEN Ret(h, -1)
    ELSE IF i.game = NULL
    THEN Ret([h EXCEPT !.invs[inv].state = INV_CLOSED_STATE], 0)
    ELSE IF game_is_over(h.games[i.game]) # 0
    THEN Ret([h EXCEPT !.invs[inv].state = INV_CLOSED_STATE], 0)
    ELSE Ret([h EXCEPT !.games[i.game] = game_resign(@, role).game,
                       !.invs[inv].state = INV_CLOSED_STATE], 0)

inv_close(h, inv, role) ==
    LET i == h.invs[inv] IN
    IF i.state # INV_OPEN_STATE /\ i.state # INV_ACCEPTED_STATE
    THEN Ret(h, -1)
    ELSE IF i.game = NULL
    THEN Ret([h EXCEPT !.invs[inv].state = INV_CLOSED_STATE], 0)
    ELSE IF game_is_over(h.games[i.game]) # 0
    THEN Ret([h EXCEPT !.invs[inv].state = INV_CLOSED_STATE], 0)
    ELSE IF role = NULL_ROLE
    THEN Ret(h, -1)
    ELSE Ret([h EXCEPT !.games[i.game] = game_resign(@, role).game,
                       !.invs[inv].state = INV_CLOSED_STATE], 0)

(* Client *)

\* client_create: the count is set to 0 and raised by client_ref
client_create == [player |-> NULL, inviteHead |-> <<>>, invites |-> 0, count |-> 1]

client_get_player(h, client) == h.clients[client].player

player_get_name(h, player) == h.players[player].name

\* position in the client's list of the first node with the ID, or NULL
get_invite_node_from_id(h, client, id) ==
    LET l == h.clients[client].inviteHead
        hits == {k \in 1..Len(l) : l[k].id = id}
    IN  IF hits = {} THEN NULL ELSE CHOOSE k \in hits : \A m \in hits : k <= m

\* position in the client's list of the first node with the invitation, or NULL
get_invite_node_from_inv(h, client, inv) ==
    LET l == h.clients[client].inviteHead
        hits == {k \in 1..Len(l) : l[k].invitation = inv}
    IN  IF hits = {} THEN NULL ELSE CHOOSE k \in hits : \A m \in hits : k <= m

\* client_add_invitation: ret is the ID given to the new node
client_add_invitation(h, client, inv) ==
    LET id == h.clients[client].invites
        node == [id |-> id, invitation |-> inv]
    IN  Ret(inv_ref([h EXCEPT !.clients[client].invites = @ + 1,
                              !.clients[client].inviteHead = Append(@, node)],
                    inv), id)

\* client_remove_invitation: ret is the ID of the removed node, or -1
client_remove_invitation(h, client, inv) ==
    LET l == h.clients[client].inviteHead
        k == get_invite_node_from_inv(h, client, inv)
    IN  IF k = NULL
        THEN Ret(h, -1)
        ELSE Ret(inv_unref([h EXCEPT !.clients[client].invites = @ - 1,
                                     !.clients[client].inviteHead =
                                         [j \in 1..(Len(l) - 1) |->
                                             IF j < k THEN l[j] ELSE l[j + 1]]],
                           inv),
                 l[k].id)

client_login(h, client, player) ==
    IF h.clients[client].player # NULL
    THEN Ret(h, -1)
    ELSE Ret([h EXCEPT !.clients[client].player = player], 0)

client_make_invitation(h, source, target, source_role, target_role) ==
    LET c == inv_create(h, source, target, source_role, target_role)
        inv == c.ret
    IN  IF inv = NULL THEN Ret(h, -1) ELSE
    LET a1 == client_add_invitation(c.h, source, inv)
        a2 == client_add_invitation(a1.h, target, inv)
        id == a2.ret
        name == player_get_name(a2.h, client_get_player(a2.h, source))
    IN  client_send_packet(a2.h, target, "INVITED", id,
                           inv_get_target_role(a2.h, inv), <<name>>)

\* client_revoke_invitation that takes the invitation out of the list of the
\* caller only
client_revoke_invitation_own_list_only(h, client, id) ==
    LET current == get_invite_node_from_id(h, client, id) IN
    IF current = NULL THEN Ret(h, -1) ELSE
    LET inv == h.clients[client].inviteHead[current].invitation
        c == inv_close(h, inv, NULL_ROLE)
    IN
    IF c.ret = -1 THEN Ret(c.h, -1)
    ELSE Ret(client_remove_invitation(c.h, client, inv).h, 0)

client_revoke_invitation(h, client, id) ==
    LET current == get_invite_node_from_id(h, client, id) IN
    IF current = NULL THEN Ret(h, -1) ELSE
    LET inv == h.clients[client].inviteHead[current].invitation IN
    IF inv_get_game(h, inv) # NULL THEN Ret(h, -1) ELSE
    LET target == inv_get_target(h, inv)
        targetNode == get_invite_node_from_inv(h, target, inv)
    IN
    IF targetNode = NULL THEN Ret(h, -1) ELSE
    IF inv_get_source(h, inv) # client THEN Ret(h, -1) ELSE
    LET c == inv_close(h, inv, NULL_ROLE) IN
    IF c.ret = -1 THEN Ret(c.h, -1) ELSE
    LET r1 == client_remove_invitation(c.h, client, inv) IN
    IF r1.ret = -1 THEN Ret(r1.h, -1) ELSE
    LET r2 == client_remove_invitation(r1.h, target, inv)
        targetId == r2.ret
    IN
    IF targetId = -1 THEN Ret(r2.h, -1) ELSE
    client_send_packet(inv_unref(r2.h, inv), target, "REVOKED", targetId, 0, <<>>)

client_decline_invitation(h, client, id) ==
    LET current == get_invite_node_from_id(h, client, id) IN
    IF current = NULL THEN Ret(h, -1) ELSE
    LET inv == h.clients[client].inviteHead[current].invitation IN
    IF inv_get_game(h, inv) # NULL THEN Ret(h, -1) ELSE
    LET source == inv_get_source(h, inv)
        sourceNode == get_invite_node_from_inv(h, source, inv)
    IN
    IF sourceNode = NULL THEN Ret(h, -1) ELSE
    IF inv_get_target(h, inv) # client THEN Ret(h, -1) ELSE
    LET c == inv_close(h, inv, NULL_ROLE) IN
    IF c.ret = -1 THEN Ret(c.h, -1) ELSE
    LET r1 == client_remove_invitation(c.h, client, inv) IN
    IF r1.ret = -1 THEN Ret(r1.h, -1) ELSE
    LET r2 == client_remove_invitation(r1.h, source, inv)
        sourceId == r2.ret
    IN
    IF sourceId = -1 THEN Ret(r2.h, -1) ELSE
    client_send_packet(inv_unref(r2.h, inv), source, "DECLINED", sourceId, 0, <<>>)

client_accept_invitation(h, client, id) ==
    \* ret is the return value, strp the board text handed back (<<>> if none)
    LET Fail(hh) == [h |-> hh, ret |-> -1, strp |-> <<>>]
        current == get_invite_node_from_id(h, client, id)
    IN
    IF current = NULL THEN Fail(h) ELSE
    LET targetInv == h.clients[client].inviteHead[current].invitation IN
    IF inv_get_game(h, targetInv) # NULL THEN Fail(h) ELSE
    LET source == inv_get_source(h, targetInv)
        sourceNode == get_invite_node_from_inv(h, source, targetInv)
    IN
    IF sourceNode = NULL THEN Fail(h) ELSE
    LET sourceId == h.clients[source].inviteHead[sourceNode].id
        a == inv_accept(h, targetInv)
    IN
    IF a.ret = -1 THEN Fail(a.h) ELSE
    LET sourceRole == inv_get_source_role(a.h, targetInv)
        state == game_unparse_state(a.h.games[inv_get_game(a.h, targetInv)])
        gameState == IF sourceRole = FIRST_PLAYER_ROLE THEN state ELSE <<>>
        strp == IF sourceRole = FIRST_PLAYER_ROLE THEN <<>> ELSE state
        s == client_send_packet(a.h, source, "ACCEPTED", sourceId, 0, gameState)
    IN
    IF s.ret = -1
    THEN [h |-> s.h, ret |-> -1, strp |-> strp]
    ELSE [h |-> s.h, ret |-> 0, strp |-> strp]

RoleCode(winner) ==
    IF winner = FIRST_PLAYER_ROLE THEN 1
    ELSE IF winner = SECOND_PLAYER_ROLE THEN 2 ELSE 0

client_resign_game(h, client, id) ==
    LET current == get_invite_node_from_id(h, client, id) IN
    IF current = NULL THEN Ret(h, -1) ELSE
    LET inv == h.clients[client].inviteHead[current].invitation IN
    IF inv_get_game(h, inv) = NULL THEN Ret(h, -1) ELSE
    LET sourceResign == (client = inv_get_source(h, inv))
        opponent == IF sourceResign THEN inv_get_target(h, inv)
                    ELSE inv_get_source(h, inv)
        opponentNode == get_invite_node_from_inv(h, opponent, inv)
    IN
    IF opponentNode = NULL THEN Ret(h, -1) ELSE
    LET c == IF sourceResign
             THEN inv_close(h, inv, inv_get_source_role(h, inv))
             ELSE inv_close(h, inv, inv_get_target_role(h, inv))
    IN
    IF c.ret = -1 THEN Ret(c.h, -1) ELSE
    LET r1 == client_remove_invitation(c.h, client, inv)
        clientId == r1.ret
        r2 == client_remove_invitation(r1.h, opponent, inv)
        opponentId == r2.ret
    IN
    IF opponentId = -1 THEN Ret(r2.h, -1) ELSE
    LET h3 == [r2.h EXCEPT !.players =
                   player_post_result(@, client_get_player(r2.h, client),
                                      client_get_player(r2.h, opponent), 2)]
        s1 == client_send_packet(h3, opponent, "RESIGNED", opponentId, 0, <<>>)
    IN
    IF s1.ret = -1 THEN Ret(inv_unref(s1.h, inv), -1) ELSE
    LET winner == game_get_winner(s1.h.games[inv_get_game(s1.h, inv)])
        roleWinner == RoleCode(winner)
        s2 == client_send_packet(s1.h, client, "ENDED", clientId, roleWinner, <<>>)
    IN
    IF s2.ret = -1 THEN Ret(inv_unref(s2.h, inv), -1) ELSE
    LET s3 == client_send_packet(s2.h, opponent, "ENDED", opponentId, roleWinner, <<>>)
    IN
    IF s3.ret = -1 THEN Ret(inv_unref(s3.h, inv), -1) ELSE Ret(inv_unref(s3.h, inv), 0)

ToMoveO == <<"\n", "O", " ", "t", "o", " ", "m", "o", "v", "e", "\n">>
ToMoveX == <<"\n", "X", " ", "t", "o", " ", "m", "o", "v", "e", "\n">>

client_make_move(h, client, id, move) ==
    LET current == get_invite_node_from_id(h, client, id) IN
    IF current = NULL THEN Ret(h, -1) ELSE
    LET inv == h.clients[client].inviteHead[current].invitation
        game == inv_get_game(h, inv)
    IN
    IF game = NULL THEN Ret(h, -1) ELSE
    LET isSource == (client = inv_get_source(h, inv))
        clientRole == IF isSource THEN inv_get_source_role(h, inv)
                      ELSE inv_get_target_role(h, inv)
        opponent == IF isSource THEN inv_get_target(h, inv)
                    ELSE inv_get_source(h, inv)
        gameMove == game_parse_move(h.games[game], clientRole, move)
    IN
    IF gameMove.null THEN Ret(h, -1) ELSE
    LET a == game_apply_move(h.games[game], gameMove)
        h1 == [h EXCEPT !.games[game] = a.game]
    IN
    IF a.ret = -1 THEN Ret(h1, -1) ELSE
    LET opponentNode == get_invite_node_from_inv(h1, opponent, inv) IN
    IF opponentNode = NULL THEN Ret(h1, -1) ELSE
    LET over == game_is_over(h1.games[game]) # 0
        buffer == <<"\n">> \o game_unparse_state(h1.games[game])
                  \o (IF over THEN <<>>
                      ELSE IF clientRole = FIRST_PLAYER_ROLE THEN ToMoveO
                      ELSE ToMoveX)
        clientId == h1.clients[client].inviteHead[current].id
        opponentId == h1.clients[opponent].inviteHead[opponentNode].id
        s1 == client_send_packet(h1, opponent, "MOVED", opponentId, 0, buffer)
    IN
    IF s1.ret = -1 THEN Ret(s1.h, -1) ELSE
    IF ~over THEN Ret(s1.h, 0) ELSE
    LET winner == game_get_winner(s1.h.games[game])
        clientOutcome == IF winner = clientRole THEN 1
                         ELSE IF winner = NULL_ROLE THEN 0 ELSE 2
        roleWinner == RoleCode(winner)
        s2 == client_send_packet(s1.h, client, "ENDED", clientId, roleWinner, <<>>)
    IN
    IF s2.ret = -1 THEN Ret(s2.h, -1) ELSE
    LET s3 == client_send_packet(s2.h, opponent, "ENDED", opponentId, roleWinner, <<>>)
    IN
    IF s3.ret = -1 THEN Ret(s3.h, -1) ELSE
    LET c == inv_close(s3.h, inv, winner) IN
    IF c.ret = -1 THEN Ret(c.h, -1) ELSE
    LET h4 == [c.h EXCEPT !.players =
                   player_post_result(@, c.h.clients[client].player,
                                      c.h.clients[opponent].player, clientOutcome)]
        r1 == client_remove_invitation(h4, client, inv)
    IN
    IF r1.ret = -1 THEN Ret(r1.h, -1) ELSE
    LET r2 == client_remove_invitation(r1.h, opponent, inv) IN
    IF r2.ret = -1 THEN Ret(r2.h, -1) ELSE Ret(inv_unref(r2.h, inv), 0)

(* The clientMutex locks an operation takes and holds together, in the     *)
(* order of its pthread_mutex_lock calls (a lock taken again by its holder  *)
(* is listed again: the mutex is recursive).                                *)

client_make_invitation_locks(h, source, target) ==
    IF inv_create(h, source, target, NULL_ROLE, NULL_ROLE).ret = NULL
    THEN <<>>
    ELSE <<source, target>>

client_revoke_invitation_locks(h, client, id) ==
    LET current == get_invite_node_from_id(h, client, id) IN
    IF current = NULL THEN <<client>> ELSE
    LET inv == h.clients[client].inviteHead[current].invitation IN
    IF inv_get_game(h, inv) # NULL THEN <<client>>
    ELSE <<client, inv_get_target(h, inv)>>

client_decline_invitation_locks(h, client, id) ==
    LET current == get_invite_node_from_id(h, client, id) IN
    IF current = NULL THEN <<client>> ELSE
    LET inv == h.clients[client].inviteHead[current].invitation IN
    IF inv_get_game(h, inv) # NULL THEN <<client>>
    ELSE <<client, inv_get_source(h, inv)>>

client_accept_invitation_locks(h, client, id) ==
    LET current == get_invite_node_from_id(h, client, id) IN
    IF current = NULL THEN <<client>> ELSE
    LET targetInv == h.clients[client].inviteHead[current].invitation IN
    IF inv_get_game(h, targetInv) # NULL THEN <<client>>
    ELSE <<client, inv_get_source(h, targetInv)>>

client_resign_game_locks(h, client, id) ==
    LET current == get_invite_node_from_id(h, client, id) IN
    IF current = NULL THEN <<client>> ELSE
    LET inv == h.clients[client].inviteHead[current].invitation IN
    IF inv_get_game(h, inv) = NULL THEN <<client>>
    ELSE IF client = inv_get_source(h, inv)
    THEN <<client, inv_get_target(h, inv)>>
    ELSE <<client, inv_get_source(h, inv)>>

client_make_move_locks(h, client, id) ==
    LET current == get_invite_node_from_id(h, client, id) IN
    IF current = NULL THEN <<client>> ELSE
    LET inv == h.clients[client].inviteHead[current].invitation IN
    IF inv_get_game(h, inv) = NULL THEN <<client>>
    ELSE IF client = inv_get_source(h, inv)
    THEN <<client, inv_get_target(h, inv)>>
    ELSE <<client, inv_get_source(h, inv)>>

\* the loop of client_logout over the nodes the list held on entry
RECURSIVE LogoutLoop(_, _, _)
LogoutLoop(h, client, nodes) ==
    IF nodes = <<>> THEN h
    ELSE LET temp == Head(nodes)
             r == IF inv_get_game(h, temp.invitation) # NULL
                  THEN client_resign_game(h, client, temp.id)
                  ELSE IF inv_get_source(h, temp.invitation) = client
                  THEN client_revoke_invitation(h, client, temp.id)
                  ELSE client_decline_invitation(h, client, temp.id)
         IN  LogoutLoop(r.h, client, Tail(nodes))

\* client_logout with a loop that ends after the first node
client_logout_first_only(h, client) ==
    IF h.clients[client].player = NULL
    THEN Ret(h, -1)
    ELSE LET l == h.clients[client].inviteHead
             h1 == LogoutLoop(h, client, IF l = <<>> THEN l ELSE <<Head(l)>>)
         IN  Ret([h1 EXCEPT !.clients[client].player = NULL], 0)

client_logout(h, client) ==
    IF h.clients[client].player = NULL
    THEN Ret(h, -1)
    ELSE LET h1 == LogoutLoop(h, client, h.clients[client].inviteHead)
         IN  Ret([h1 EXCEPT !.clients[client].player = NULL], 0)

----------------------------------------------------------------------------
(* Registries *)

Slots == 0..(MAX_CLIENTS - 1)

creg_init ==
    [numClients |-> 0, clients |-> [i \in Slots |-> NULL], emptyRegisterMutex |-> 1]

FirstSlot(S) == CHOOSE i \in S : \A m \in S : i <= m

\* creg_register: the CLIENT of connection fd goes into the first free slot
creg_register(cr, fd) ==
    IF cr.numClients = MAX_CLIENTS
    THEN [cr |-> cr, ret |-> NULL]
    ELSE LET free == {i \in Slots : cr.clients[i] = NULL}
         IN  IF free = {}
             THEN [cr |-> cr, ret |-> fd]
             ELSE [cr |-> [cr EXCEPT !.clients[FirstSlot(free)] = fd,
                                     !.numClients = @ + 1],
                   ret |-> fd]

\* creg_unregister: found or not, V(emptyRegisterMutex) if the registry is
\* empty and the flag of creg_wait_for_empty is set
creg_unregister(cr, client) ==
    LET held == {i \in Slots : cr.clients[i] = client}
        cr1 == IF held = {} THEN cr
               ELSE [cr EXCEPT !.clients[FirstSlot(held)] = NULL,
                               !.numClients = @ - 1]
        cr2 == IF cr1.numClients = 0 /\ waitingForEmpty # 0
               THEN [cr1 EXCEPT !.emptyRegisterMutex = @ + 1]
               ELSE cr1
    IN  [cr |-> cr2, ret |-> IF held = {} THEN -1 ELSE 0]

\* creg_lookup: the first registered CLIENT logged in under the name
creg_lookup(cr, cl, ps, user) ==
    LET hits == {i \in Slots : /\ cr.clients[i] # NULL
                               /\ cl[cr.clients[i]].player # NULL
                               /\ ps[cl[cr.clients[i]].player].name = user}
    IN  IF hits = {} THEN NULL ELSE cr.clients[FirstSlot(hits)]

\* creg_all_players: the players of the logged-in CLIENTs, in slot order
RECURSIVE PlayersFrom(_, _, _)
PlayersFrom(cr, cl, i) ==
    IF i >= MAX_CLIENTS THEN <<>>
    ELSE IF cr.clients[i] # NULL /\ cl[cr.clients[i]].player # NULL
    THEN <<cl[cr.clients[i]].player>> \o PlayersFrom(cr, cl, i + 1)
    ELSE PlayersFrom(cr, cl, i + 1)

creg_all_players(cr, cl) == PlayersFrom(cr, cl, 0)

player_create(name) == [name |-> name, rating |-> PLAYER_INITIAL_RATING]

\* preg_register without the search for the name
preg_register_always_new(ps, name) ==
    [ps |-> Append(ps, player_create(name)), ret |-> Len(ps) + 1]

\* preg_register: ret is the PLAYER with the name, created if there is none
preg_register(ps, name) ==
    LET hits == {k \in 1..Len(ps) : ps[k].name = name}
    IN  IF hits = {}
        THEN [ps |-> Append(ps, player_create(name)), ret |-> Len(ps) + 1]
        ELSE [ps |-> ps, ret |-> CHOOSE k \in hits : TRUE]

----------------------------------------------------------------------------
(* The service loop, jeux_client_service, one thread per connection *)

\* The move texts the modelled peers send while invitations come and go
MoveTexts == { <<"5", "X">>, <<"1", "-", ">", "o">> }

\* The move texts the modelled peers send in a game played to its end: X on
\* 1 3 4 8 9 and O on 2 5 6 7 fill the board with no line, X on 5 and O on 3
\* make lines, and the last text holds no piece
PlayTexts ==
    { <<"1", "X">>, <<"3", "x">>, <<"4", "X">>, <<"8", "X">>,
      <<"9", "-", ">", "x">>, <<"5", "X">>,
      <<"2", "O">>, <<"5", "o">>, <<"6", "O">>, <<"7", "-", ">", "O">>,
      <<"3", "O">>, <<"5">> }

\* The names the modelled peers send: a name some player has, or the first
\* name no player has yet (a LOGIN in progress counts)
UsedNames == Cardinality({k \in 1..Len(Names) :
                 \/ \E p \in 1..Len(players) : players[p].name = Names[k]
                 \/ \E c \in Conns : pending[c] = Names[k]})
LoginNames == {Names[k] : k \in {j \in 1..Len(Names) : j <= UsedNames + 1}}
InviteNames == {Names[k] : k \in {j \in 1..Len(Names) : j <= UsedNames + 1}}

\* The values of the id field the modelled peer of connection c sends: the
\* IDs in the list of its CLIENT, and the least number that is none of them
Ids(c) ==
    LET held == {clients[c].inviteHead[k].id : k \in 1..Len(clients[c].inviteHead)}
    IN  held \cup {CHOOSE n \in 0..Cardinality(held) :
                      n \notin held /\ \A m \in 0..(n - 1) : m \in held}
LiveInvs(is) == {k \in 1..Len(is) : is[k].count > 0}
RoleFields == {1, 2}            \* the values of the role field of an INVITE

\* what each socket still takes in a step: all writes if it is open, none
\* if it is closed (as those in closing are) or broken, and any number up
\* to MaxWrites, or all, if its peer has hung up; a descriptor that names
\* the socket of a later connection ("reused") takes all writes
Budgets(closing) ==
    LET dying == {c \in Conns : c \notin closing /\ conn[c] = "hungup"}
    IN  {[c \in Conns |->
            IF c \in dying THEN d[c]
            ELSE IF c \notin closing /\ conn[c] \in {"open", "reused"}
            THEN -1 ELSE 0] :
         d \in [dying -> -1..MaxWrites]}

\* the heap a step starts from; out collects the packets it writes to peers
Heap(b) ==
    [clients |-> clients, invs |-> invs, games |-> games, players |-> players,
     w |-> [c \in Conns |-> 0], b |-> b, out |-> <<>>]

\* what is left of a freed object: its memory is no longer program state
FreedInv ==
    [source |-> NULL, target |-> NULL, source_role |-> NULL_ROLE,
     target_role |-> NULL_ROLE, state |-> INV_OPEN_STATE, game |-> NULL,
     count |-> 0]

FreedGame ==
    [game_board |-> [i \in 0..8 |-> -1], isOver |-> 0, winner |-> NULL_ROLE,
     count |-> 0, expectedPiece |-> 0]

\* the step ends: the objects are as the handler left them, the freed ones
\* are gone, and a socket that refused a write takes no more
Settle(h) ==
    [h EXCEPT !.invs = [i \in 1..Len(h.invs) |->
                          IF h.invs[i].count = 0 THEN FreedInv ELSE h.invs[i]],
              !.games = [g \in 1..Len(h.games) |->
                           IF h.games[g].count = 0 THEN FreedGame ELSE h.games[g]],
              !.w = [c \in Conns |-> 0],
              !.out = <<>>]

\* (the heap is worked out once, then settled once)
Commit(heap, closing) ==
    \E h \in {heap} : \E s \in {Settle(h)} :
        /\ clients' = s.clients
        /\ invs' = s.invs
        /\ games' = s.games
        /\ players' = s.players
        /\ conn' = [c \in Conns |->
                       IF c \in closing THEN "closed"
                       ELSE IF conn[c] = "hungup" /\ h.w[c] > h.b[c] /\ h.b[c] # -1
                       THEN "broken"
                       ELSE conn[c]]

\* the answer written to the requester: client_send_nack or client_send_ack
Answer(r, data) ==
    [h |-> r.h, ret |-> r.ret,
     resp |-> IF r.ret = -1 THEN "NACK" ELSE "ACK",
     data |-> IF r.ret = -1 THEN <<>> ELSE data]

Receives(c) == pc[c] = "recv" /\ conn[c] \in {"open", "shutwr"}

\* thread start: creg_register
Register(c) ==
    /\ pc[c] = "start"
    /\ \A k \in Conns : k < c => pc[k] # "start"    \* threads start in accept order
    /\ LET r == creg_register(creg, c)
       IN  /\ creg' = r.cr
           /\ clients' = [clients EXCEPT ![c] = client_create]
           /\ pc' = [pc EXCEPT ![c] = IF r.ret = NULL THEN "exit" ELSE "recv"]
    /\ UNCHANGED <<work, invs, games, players, conn, loggedIn, pending,
                   waitingForEmpty, wpc>>

\* the peer closes its end of the connection: the read that follows the
\* frames already sent returns 0
PeerCloses(c) ==
    /\ pc[c] \in {"recv", "login"}
    /\ conn[c] \in {"open", "shutwr"}
    /\ conn' = [conn EXCEPT ![c] = IF @ = "open" THEN "hungup" ELSE "broken"]
    /\ UNCHANGED <<work, clients, invs, games, players, creg, pc, loggedIn, pending,
                   waitingForEmpty, wpc>>

Hangup(c) ==
    /\ Cardinality({k \in Conns : conn[k] \in {"hungup", "broken", "closed"}})
          < MaxHangups
    /\ PeerCloses(c)

\* proto_recv_packet returned -1: after close(connfd), logout if logged in
ServeEof(c, b) ==
    IF loggedIn[c] = 1 THEN client_logout(Heap(b), c) ELSE Ret(Heap(b), 0)

\* creg_unregister drops the reference of the registry to a CLIENT it holds
Unregistered(h, c) ==
    IF \E i \in Slots : creg.clients[i] = c THEN client_unref(h, c) ELSE h

Eof(c) ==
    /\ pc[c] = "recv"
    /\ conn[c] \in {"hungup", "broken"}
    /\ \E b \in Budgets({c}) : Commit(Unregistered(ServeEof(c, b).h, c), {c})
    /\ creg' = creg_unregister(creg, c).cr
    /\ pc' = [pc EXCEPT ![c] = "exit"]
    /\ UNCHANGED <<work, loggedIn, pending, waitingForEmpty, wpc>>

\* LOGIN up to the return of creg_lookup: "NACK", or "GO" to go on (the
\* reference creg_lookup takes on a CLIENT it finds is dropped at once)
ServeLoginLookup(c, name) ==
    IF loggedIn[c] = 1 THEN "NACK"
    ELSE IF creg_lookup(creg, clients, players, name) # NULL THEN "NACK"
    ELSE "GO"

LoginLookup(c, name) ==
    /\ Receives(c)
    /\ IF ServeLoginLookup(c, name) = "NACK"
       THEN UNCHANGED <<work, pc, pending>>
       ELSE /\ pc' = [pc EXCEPT ![c] = "login"]
            /\ pending' = [pending EXCEPT ![c] = name]
    /\ UNCHANGED <<work, clients, invs, games, players, creg, conn, loggedIn,
                   waitingForEmpty, wpc>>

\* LOGIN from preg_register on
ServeLoginFinish(c) ==
    LET p == preg_register(players, pending[c])
        h == [Heap([k \in Conns |-> -1]) EXCEPT !.players = p.ps]
    IN  Answer(client_login(h, c, p.ret), <<>>)

LoginFinish(c) ==
    /\ pc[c] = "login"
    /\ LET r == ServeLoginFinish(c)
       IN  /\ clients' = r.h.clients
           /\ players' = r.h.players
           /\ loggedIn' = [loggedIn EXCEPT ![c] = IF r.ret = -1 THEN @ ELSE 1]
    /\ pc' = [pc EXCEPT ![c] = "recv"]
    /\ pending' = [pending EXCEPT ![c] = ""]
    /\ UNCHANGED <<work, invs, games, creg, conn, waitingForEmpty, wpc>>

\* the USERS branch without its test of loggedIn
ServeUsers_no_login_check(c, b) ==
    LET playerList == creg_all_players(creg, clients)
    IN  Answer(Ret(Heap(b), 0),
               [k \in 1..Len(playerList) |->
                   <<players[playerList[k]].name, players[playerList[k]].rating>>])

\* the requests other than LOGIN: NACK unless logged in, else the handler
ServeUsers(c, b) ==
    IF loggedIn[c] # 1 THEN Answer(Ret(Heap(b), -1), <<>>)
    ELSE LET playerList == creg_all_players(creg, clients)
         IN  Answer(Ret(Heap(b), 0),
                    [k \in 1..Len(playerList) |->
                        <<players[playerList[k]].name, players[playerList[k]].rating>>])

\* the roles the INVITE branch takes from a role field of 1 or 2
TargetRole(role) ==
    CASE role = 1 -> FIRST_PLAYER_ROLE [] role = 2 -> SECOND_PLAYER_ROLE
SourceRole(role) ==
    CASE role = 1 -> SECOND_PLAYER_ROLE [] role = 2 -> FIRST_PLAYER_ROLE

\* what a GAME_ROLE variable that was never assigned may hold: a role, no
\* role, or (3) a value that is none of the GAME_ROLEs
UninitRoles == {NULL_ROLE, FIRST_PLAYER_ROLE, SECOND_PLAYER_ROLE, 3}

\* the pairs <<sourceRole, targetRole>> the INVITE branch may pass on: with a
\* role field that is neither 1 nor 2 neither variable is assigned
InviteRoles(role) ==
    IF role \in {1, 2}
    THEN {<<SourceRole(role), TargetRole(role)>>}
    ELSE UninitRoles \X UninitRoles

\* the INVITE branch from creg_lookup on, with the roles it has decided
ServeInviteRoles(c, name, sourceRole, targetRole, b) ==
    IF loggedIn[c] # 1 THEN Answer(Ret(Heap(b), -1), <<>>)
    ELSE LET target == creg_lookup(creg, clients, players, name)
         IN  IF target = NULL
             THEN Answer(Ret(Heap(b), -1), <<>>)
             ELSE \* creg_lookup has taken a reference, dropped after the call
                  LET r == client_make_invitation(client_ref(Heap(b), target), c,
                                                  target, sourceRole, targetRole)
                  IN  Answer(Ret(client_unref(r.h, target), r.ret), <<>>)

ServeInvite(c, name, role, b) ==
    ServeInviteRoles(c, name, SourceRole(role), TargetRole(role), b)

ServeRevoke(c, id, b) ==
    IF loggedIn[c] # 1 THEN Answer(Ret(Heap(b), -1), <<>>)
    ELSE Answer(client_revoke_invitation(Heap(b), c, id), <<>>)

ServeDecline(c, id, b) ==
    IF loggedIn[c] # 1 THEN Answer(Ret(Heap(b), -1), <<>>)
    ELSE Answer(client_decline_invitation(Heap(b), c, id), <<>>)

ServeAccept(c, id, b) ==
    IF loggedIn[c] # 1 THEN Answer(Ret(Heap(b), -1), <<>>)
    ELSE LET r == client_accept_invitation(Heap(b), c, id)
         IN  Answer(r, r.strp)

ServeMove(c, id, text, b) ==
    IF loggedIn[c] # 1 THEN Answer(Ret(Heap(b), -1), <<>>)
    ELSE Answer(client_make_move(Heap(b), c, id, text), <<>>)

ServeResign(c, id, b) ==
    IF loggedIn[c] # 1 THEN Answer(Ret(Heap(b), -1), <<>>)
    ELSE Answer(client_resign_game(Heap(b), c, id), <<>>)

\* a frame whose type is none the loop tests for: no branch is taken, nothing
\* is written
ServeOther(c, b) ==
    [h |-> Heap(b), ret |-> 0, resp |-> "NONE", data |-> <<>>]

Other(c) ==
    /\ Receives(c)
    /\ \E b \in Budgets({}) : Commit(ServeOther(c, b).h, {})
    /\ UNCHANGED <<work, creg, pc, loggedIn, pending, waitingForEmpty, wpc>>

Users(c) ==
    /\ Receives(c)
    /\ \E b \in Budgets({}) : Commit(ServeUsers(c, b).h, {})
    /\ UNCHANGED <<work, creg, pc, loggedIn, pending, waitingForEmpty, wpc>>

Invite(c, name, role) ==
    /\ Receives(c)
    /\ Cardinality(LiveInvs(invs)) < MaxInvs
    /\ \E b \in Budgets({}) : Commit(ServeInvite(c, name, role, b).h, {})
    /\ UNCHANGED <<work, creg, pc, loggedIn, pending, waitingForEmpty, wpc>>

Revoke(c, id) ==
    /\ Receives(c)
    /\ \E b \in Budgets({}) : Commit(ServeRevoke(c, id, b).h, {})
    /\ UNCHANGED <<work, creg, pc, loggedIn, pending, waitingForEmpty, wpc>>

Decline(c, id) ==
    /\ Receives(c)
    /\ \E b \in Budgets({}) : Commit(ServeDecline(c, id, b).h, {})
    /\ UNCHANGED <<work, creg, pc, loggedIn, pending, waitingForEmpty, wpc>>

Accept(c, id) ==
    /\ Receives(c)
    /\ Len(games) < MaxGames
    /\ \E b \in Budgets({}) : Commit(ServeAccept(c, id, b).h, {})
    /\ UNCHANGED <<work, creg, pc, loggedIn, pending, waitingForEmpty, wpc>>

Move(c, id, text) ==
    /\ Receives(c)
    /\ \E b \in Budgets({}) : Commit(ServeMove(c, id, text, b).h, {})
    /\ UNCHANGED <<work, creg, pc, loggedIn, pending, waitingForEmpty, wpc>>

Resign(c, id) ==
    /\ Receives(c)
    /\ \E b \in Budgets({}) : Commit(ServeResign(c, id, b).h, {})
    /\ UNCHANGED <<work, creg, pc, loggedIn, pending, waitingForEmpty, wpc>>

Init ==
    /\ clients = [c \in Conns |-> client_create]
    /\ invs = <<>>
    /\ games = <<>>
    /\ players = <<>>
    /\ creg = creg_init
    /\ conn = [c \in Conns |-> "open"]
    /\ pc = [c \in Conns |-> "start"]
    /\ loggedIn = [c \in Conns |-> 0]
    /\ pending = [c \in Conns |-> ""]
    /\ waitingForEmpty = 0
    /\ wpc = [w \in Waiters |-> "idle"]
    /\ work = [c \in Conns |-> NoReq]

Next ==
    \/ \E c \in Conns : Register(c)
    \/ \E c \in Conns : Hangup(c)
    \/ \E c \in Conns : Eof(c)
    \/ \E c \in Conns, name \in LoginNames : LoginLookup(c, name)
    \/ \E c \in Conns : LoginFinish(c)
    \/ \E c \in Conns : Users(c)
    \/ \E c \in Conns, name \in InviteNames, role \in RoleFields : Invite(c, name, role)
    \/ \E c \in Conns : \E id \in Ids(c) : Revoke(c, id)
    \/ \E c \in Conns : \E id \in Ids(c) : Decline(c, id)
    \/ \E c \in Conns : \E id \in Ids(c) : Accept(c, id)
    \/ \E c \in Conns : \E id \in Ids(c), text \in MoveTexts : Move(c, id, text)
    \/ \E c \in Conns : \E id \in Ids(c) : Resign(c, id)
    \/ \E c \in Conns : Other(c)

Spec == Init /\ [][Next]_vars

----------------------------------------------------------------------------
(* A game played to its end.  The run starts where the two oldest          *)
(* connections have logged in under the first two names, the first has     *)
(* invited the second and the second has accepted: requests served in that *)
(* order from Init, with the role field of the INVITE either way.          *)

RECURSIVE RegisterFrom(_, _)
RegisterFrom(cr, c) ==
    IF c > NumConns THEN cr ELSE RegisterFrom(creg_register(cr, c).cr, c + 1)

PlayStart(role) ==
    LET p1 == preg_register(<<>>, Names[1])
        p2 == preg_register(p1.ps, Names[2])
        h0 == [clients |-> [c \in Conns |-> client_create], invs |-> <<>>,
               games |-> <<>>, players |-> p2.ps,
               w |-> [c \in Conns |-> 0], b |-> [c \in Conns |-> -1], out |-> <<>>]
        h1 == client_login(h0, 1, p1.ret).h
        h2 == client_login(h1, 2, p2.ret).h
        h3 == client_make_invitation(h2, 1, 2, SourceRole(role), TargetRole(role)).h
        h4 == client_accept_invitation(h3, 2, 0).h
    IN  Settle(h4)

InitPlay ==
    /\ \E role \in RoleFields :
          /\ clients = PlayStart(role).clients
          /\ invs = PlayStart(role).invs
          /\ games = PlayStart(role).games
          /\ players = PlayStart(role).players
    /\ creg = RegisterFrom(creg_init, 1)
    /\ conn = [c \in Conns |-> "open"]
    /\ pc = [c \in Conns |-> "recv"]
    /\ loggedIn = [c \in Conns |-> IF c <= 2 THEN 1 ELSE 0]
    /\ pending = [c \in Conns |-> ""]
    /\ waitingForEmpty = 0
    /\ wpc = [w \in Waiters |-> "idle"]
    /\ work = [c \in Conns |-> NoReq]

NextPlay ==
    \/ \E c \in Conns : Hangup(c)
    \/ \E c \in Conns : Eof(c)
    \/ \E c \in Conns : \E id \in Ids(c), text \in PlayTexts : Move(c, id, text)
    \/ \E c \in Conns : \E id \in Ids(c) : Resign(c, id)

SpecPlay == InitPlay /\ [][NextPlay]_vars

\* the start of SpecPlay is a state of Spec
PlayStartReached ==
    \E role \in RoleFields :
        /\ clients = PlayStart(role).clients
        /\ invs = PlayStart(role).invs
        /\ games = PlayStart(role).games
        /\ players = PlayStart(role).players
        /\ creg = RegisterFrom(creg_init, 1)
        /\ \A c \in Conns : conn[c] = "open" /\ pc[c] = "recv" /\ pending[c] = ""

----------------------------------------------------------------------------
(* The shutdown.  creg_shutdown_all is issued at some moment of a run that   *)
(* starts with the service threads about to register, or with two clients    *)
(* logged in, and creg_wait_for_empty is then called.  The peers send no     *)
(* frames; a peer may close its end.                                         *)

\* creg_shutdown_all: shutdown(fd, SHUT_WR) on the socket of every registered
\* CLIENT; the socket takes no more writes, its read side is as it was
creg_shutdown_all(cr, cn) ==
    [c \in Conns |->
        IF \E i \in Slots : cr.clients[i] = c
        THEN IF cn[c] = "open" THEN "shutwr"
             ELSE IF cn[c] = "hungup" THEN "broken" ELSE cn[c]
        ELSE cn[c]]

Shutdown ==
    /\ \A w \in Waiters : wpc[w] = "idle"
    /\ conn' = creg_shutdown_all(creg, conn)
    /\ wpc' = [w \in Waiters |-> "call"]
    /\ UNCHANGED <<work, clients, invs, games, players, creg, pc, loggedIn, pending,
                   waitingForEmpty>>

\* creg_wait_for_empty, statement by statement: the test of numClients
WaitTest(w) ==
    /\ wpc[w] = "call"
    /\ wpc' = [wpc EXCEPT ![w] = IF creg.numClients # 0 THEN "P1" ELSE "done"]
    /\ UNCHANGED <<work, clients, invs, games, players, creg, conn, pc, loggedIn,
                   pending, waitingForEmpty>>

\* the first P(&cr->emptyRegisterMutex)
WaitP1(w) ==
    /\ wpc[w] = "P1"
    /\ creg.emptyRegisterMutex > 0
    /\ creg' = [creg EXCEPT !.emptyRegisterMutex = @ - 1]
    /\ wpc' = [wpc EXCEPT ![w] = "set"]
    /\ UNCHANGED <<work, clients, invs, games, players, conn, pc, loggedIn, pending,
                   waitingForEmpty>>

\* waitingForEmpty = 1
WaitSet(w) ==
    /\ wpc[w] = "set"
    /\ waitingForEmpty' = 1
    /\ wpc' = [wpc EXCEPT ![w] = "P2"]
    /\ UNCHANGED <<work, clients, invs, games, players, creg, conn, pc, loggedIn,
                   pending>>

\* the second P(&cr->emptyRegisterMutex), and the return
WaitP2(w) ==
    /\ wpc[w] = "P2"
    /\ creg.emptyRegisterMutex > 0
    /\ creg' = [creg EXCEPT !.emptyRegisterMutex = @ - 1]
    /\ wpc' = [wpc EXCEPT ![w] = "done"]
    /\ UNCHANGED <<work, clients, invs, games, players, conn, pc, loggedIn, pending,
                   waitingForEmpty>>

\* the two oldest connections have logged in under the first two names
LoginStart ==
    LET p1 == preg_register(<<>>, Names[1])
        p2 == preg_register(p1.ps, Names[2])
        h0 == [clients |-> [c \in Conns |-> client_create], invs |-> <<>>,
               games |-> <<>>, players |-> p2.ps,
               w |-> [c \in Conns |-> 0], b |-> [c \in Conns |-> -1], out |-> <<>>]
        h1 == client_login(h0, 1, p1.ret).h
    IN  Settle(client_login(h1, 2, p2.ret).h)

InitLoggedIn ==
    /\ clients = LoginStart.clients
    /\ invs = <<>>
    /\ games = <<>>
    /\ players = LoginStart.players
    /\ creg = RegisterFrom(creg_init, 1)
    /\ conn = [c \in Conns |-> "open"]
    /\ pc = [c \in Conns |-> "recv"]
    /\ loggedIn = [c \in Conns |-> IF c <= 2 THEN 1 ELSE 0]
    /\ pending = [c \in Conns |-> ""]
    /\ waitingForEmpty = 0
    /\ wpc = [w \in Waiters |-> "idle"]
    /\ work = [c \in Conns |-> NoReq]

InitShutdown == Init \/ InitLoggedIn

NextShutdown ==
    \/ \E c \in Conns : Register(c)
    \/ \E c \in Conns : PeerCloses(c)
    \/ \E c \in Conns : Eof(c)
    \/ Shutdown
    \/ \E w \in Waiters : WaitTest(w)
    \/ \E w \in Waiters : WaitP1(w)
    \/ \E w \in Waiters : WaitSet(w)
    \/ \E w \in Waiters : WaitP2(w)

\* a step of a thread of the server
ThreadStep ==
    \/ \E c \in Conns : Register(c) \/ Eof(c)
    \/ \E w \in Waiters : WaitTest(w) \/ WaitP1(w) \/ WaitSet(w) \/ WaitP2(w)

\* the threads are scheduled: while some thread can take a step, a step is
\* taken (no thread can take steps without end, so none is passed over for
\* ever); the peers owe nothing
FairShutdown == WF_vars(ThreadStep)

SpecShutdown == InitShutdown /\ [][NextShutdown]_vars /\ FairShutdown

----------------------------------------------------------------------------
(* One GAME on its own.  The run starts with a GAME as game_create leaves   *)
(* it, held by no invitation, and applies game_apply_move with every move   *)
(* a GAME_MOVE can hold for a square of the board, and game_resign.         *)

Cells == 1..9
Pieces == {0, 1}        \* the values of the piece of a GAME_MOVE: O and X

InitGame ==
    /\ clients = [c \in Conns |-> client_create]
    /\ invs = <<>>
    /\ games = <<game_create>>
    /\ players = <<>>
    /\ creg = creg_init
    /\ conn = [c \in Conns |-> "open"]
    /\ pc = [c \in Conns |-> "start"]
    /\ loggedIn = [c \in Conns |-> 0]
    /\ pending = [c \in Conns |-> ""]
    /\ waitingForEmpty = 0
    /\ wpc = [w \in Waiters |-> "idle"]
    /\ work = [c \in Conns |-> NoReq]

GameMove(placement, piece) ==
    /\ games' = [games EXCEPT ![1] =
                    game_apply_move(@, [piece |-> piece,
                                        placement |-> placement]).game]
    /\ UNCHANGED <<work, clients, invs, players, creg, conn, pc, loggedIn, pending,
                   waitingForEmpty, wpc>>

GameResign(role) ==
    /\ games' = [games EXCEPT ![1] = game_resign(@, role).game]
    /\ UNCHANGED <<work, clients, invs, players, creg, conn, pc, loggedIn, pending,
                   waitingForEmpty, wpc>>

NextGame ==
    \/ \E placement \in Cells, piece \in Pieces : GameMove(placement, piece)
    \/ \E role \in {FIRST_PLAYER_ROLE, SECOND_PLAYER_ROLE} : GameResign(role)

SpecGame == InitGame /\ [][NextGame]_vars

----------------------------------------------------------------------------
(* Two PLAYERs on their own.  The run starts with the players of the first  *)
(* two names as preg_register creates them and posts results of games       *)
(* between them, either way round, while the ratings stay within            *)
(* MaxRatingGap of the initial rating.                                      *)

InitRatings ==
    /\ clients = [c \in Conns |-> client_create]
    /\ invs = <<>>
    /\ games = <<>>
    /\ players = preg_register(preg_register(<<>>, Names[1]).ps, Names[2]).ps
    /\ creg = creg_init
    /\ conn = [c \in Conns |-> "open"]
    /\ pc = [c \in Conns |-> "start"]
    /\ loggedIn = [c \in Conns |-> 0]
    /\ pending = [c \in Conns |-> ""]
    /\ waitingForEmpty = 0
    /\ wpc = [w \in Waiters |-> "idle"]
    /\ work = [c \in Conns |-> NoReq]

RatingInBounds(r) ==
    /\ r >= PLAYER_INITIAL_RATING - MaxRatingGap
    /\ r <= PLAYER_INITIAL_RATING + MaxRatingGap

PostResult(p1, p2, result) ==
    /\ p1 # p2
    /\ players' = player_post_result(players, p1, p2, result)
    /\ \A p \in 1..Len(players) : RatingInBounds(players'[p].rating)
    /\ UNCHANGED <<work, clients, invs, games, creg, conn, pc, loggedIn, pending,
                   waitingForEmpty, wpc>>

NextRatings ==
    \E p1 \in 1..Len(players), p2 \in 1..Len(players), result \in 0..2 :
        PostResult(p1, p2, result)

SpecRatings == InitRatings /\ [][NextRatings]_vars

----------------------------------------------------------------------------
(* INVITE with any role field.  The run starts with two clients logged in;  *)
(* the peers send INVITE with a role field of 1, 2 or a value that is       *)
(* neither, and REVOKE and DECLINE.                                         *)

AnyRoleFields == 0..3       \* 1, 2, and two values that are neither

InviteAny(c, name, role) ==
    /\ Receives(c)
    /\ Cardinality(LiveInvs(invs)) < MaxInvs
    /\ \E b \in Budgets({}) : \E roles \in InviteRoles(role) :
          Commit(ServeInviteRoles(c, name, roles[1], roles[2], b).h, {})
    /\ UNCHANGED <<work, creg, pc, loggedIn, pending, waitingForEmpty, wpc>>

NextInvite ==
    \/ \E c \in Conns, name \in InviteNames, role \in AnyRoleFields :
          InviteAny(c, name, role)
    \/ \E c \in Conns : \E id \in Ids(c) : Revoke(c, id)
    \/ \E c \in Conns : \E id \in Ids(c) : Decline(c, id)

SpecInvite == InitLoggedIn /\ [][NextInvite]_vars

----------------------------------------------------------------------------
(* terminate().  The main thread is the first caller of creg_wait_for_empty; *)
(* when the call returns it finalizes the registries with creg_fini and      *)
(* preg_fini.  The run starts as a shutdown's does and is followed up to the *)
(* finalization: what a thread does with a registry that was freed is not    *)
(* defined.                                                                  *)

\* creg_fini(client_registry); preg_fini(player_registry): both are freed
Fini ==
    /\ wpc[1] = "done"
    /\ wpc' = [wpc EXCEPT ![1] = "fini"]
    /\ UNCHANGED <<work, clients, invs, games, players, creg, conn, pc, loggedIn,
                   pending, waitingForEmpty>>

Finalized == wpc[1] = "fini"

NextTerminate ==
    \/ \E c \in Conns : ~Finalized /\ Register(c)
    \/ \E c \in Conns : ~Finalized /\ PeerCloses(c)
    \/ \E c \in Conns : ~Finalized /\ Eof(c)
    \/ ~Finalized /\ Shutdown
    \/ \E w \in Waiters : ~Finalized /\ WaitTest(w)
    \/ \E w \in Waiters : ~Finalized /\ WaitP1(w)
    \/ \E w \in Waiters : ~Finalized /\ WaitSet(w)
    \/ \E w \in Waiters : ~Finalized /\ WaitP2(w)
    \/ Fini

SpecTerminate == InitShutdown /\ [][NextTerminate]_vars

----------------------------------------------------------------------------
(* An INVITE in two steps.  The thread first calls creg_lookup, which       *)
(* returns the target with a reference taken, and holds no lock until       *)
(* client_make_invitation locks the two CLIENTs: the threads of other       *)
(* connections run in between.  The run starts with two clients logged in;  *)
(* invitations are made, revoked and declined, none is accepted.            *)

\* the INVITE branch up to the return of creg_lookup: the target, or NULL
\* when the branch answers NACK
ServeInviteLookup(c, name) ==
    IF loggedIn[c] # 1 THEN NULL
    ELSE creg_lookup(creg, clients, players, name)

InviteLookup(c, name, role) ==
    /\ Receives(c)
    /\ Cardinality(LiveInvs(invs)) < MaxInvs
    /\ LET target == ServeInviteLookup(c, name)
       IN  IF target = NULL
           THEN UNCHANGED <<clients, pc, work>>
           ELSE /\ clients' = client_ref(Heap([k \in Conns |-> -1]), target).clients
                /\ pc' = [pc EXCEPT ![c] = "invite"]
                /\ work' = [work EXCEPT ![c] =
                              [type |-> "INVITE", id |-> 0, text |-> <<>>,
                               target |-> target,
                               sourceRole |-> SourceRole(role),
                               targetRole |-> TargetRole(role)]]
    /\ UNCHANGED <<invs, games, players, creg, conn, loggedIn, pending,
                   waitingForEmpty, wpc>>

\* the INVITE branch from client_make_invitation on
ServeInviteFinish(c, b) ==
    LET r == client_make_invitation(Heap(b), c, work[c].target,
                                    work[c].sourceRole, work[c].targetRole)
    IN  Answer(Ret(client_unref(r.h, work[c].target), r.ret), <<>>)

InviteFinish(c) ==
    /\ pc[c] = "invite"
    /\ \E b \in Budgets({}) : Commit(ServeInviteFinish(c, b).h, {})
    /\ pc' = [pc EXCEPT ![c] = "recv"]
    /\ work' = [work EXCEPT ![c] = NoReq]
    /\ UNCHANGED <<creg, loggedIn, pending, waitingForEmpty, wpc>>

NextRace ==
    \/ \E c \in Conns : \E name \in InviteNames : \E role \in RoleFields :
          InviteLookup(c, name, role)
    \/ \E c \in Conns : InviteFinish(c)
    \/ \E c \in Conns : \E id \in Ids(c) : Revoke(c, id)
    \/ \E c \in Conns : \E id \in Ids(c) : Decline(c, id)
    \/ \E c \in Conns : PeerCloses(c)
    \/ \E c \in Conns : Eof(c)

SpecRace == InitLoggedIn /\ [][NextRace]_vars

----------------------------------------------------------------------------
(* Sessions that end with invitations of any role field.  The run starts    *)
(* with two clients logged in; invitations are made with any role field,    *)
(* accepted, revoked and declined, and the sessions end.  The run is        *)
(* followed as long as the server lives: a logout that resigns a game whose *)
(* other party has logged out hands player_post_result a NULL player, whose *)
(* mutex it locks.                                                          *)

\* client_logout of c would call player_post_result with the NULL player of
\* an opponent: a game of c that inv_close can close, the opponent logged out
PostsToNoPlayer(c) ==
    /\ loggedIn[c] = 1
    /\ \E k \in 1..Len(clients[c].inviteHead) :
          LET i == invs[clients[c].inviteHead[k].invitation]
              opponent == IF i.source = c THEN i.target ELSE i.source
              role == IF i.source = c THEN i.source_role ELSE i.target_role
          IN  /\ i.game # NULL
              /\ clients[opponent].player = NULL
              /\ game_is_over(games[i.game]) # 0 \/ role # NULL_ROLE

EofAlive(c) == ~PostsToNoPlayer(c) /\ Eof(c)

NextEnd ==
    \/ \E c \in Conns : \E name \in InviteNames : \E role \in AnyRoleFields :
          InviteAny(c, name, role)
    \/ \E c \in Conns : \E id \in Ids(c) : Accept(c, id)
    \/ \E c \in Conns : \E id \in Ids(c) : Revoke(c, id)
    \/ \E c \in Conns : \E id \in Ids(c) : Decline(c, id)
    \/ \E c \in Conns : PeerCloses(c)
    \/ \E c \in Conns : EofAlive(c)

SpecEnd == InitLoggedIn /\ [][NextEnd]_vars

----------------------------------------------------------------------------
(* The clientMutex locks, one at a time.  REVOKE, DECLINE, ACCEPT, MOVE and  *)
(* RESIGN first lock the CLIENT of the caller, find the invitation in its   *)
(* list, and then lock the other party, which they wait for while the       *)
(* thread of that party holds it; from there on the operation runs as one   *)
(* step (what it has read of its own list cannot change: every change of a  *)
(* list is made under the lock of its CLIENT).  The run starts with two     *)
(* clients logged in; an INVITE is one step, taken while no lock is held.   *)

LockedTypes == {"REVOKE", "DECLINE", "ACCEPT", "MOVE", "RESIGN"}

\* the thread of c holds the clientMutex of c
OwnLocked(c) == pc[c] = "locked"

\* pthread_mutex_lock(&client->clientMutex) at the head of the operation
LockOwn(c, type, id, text) ==
    /\ Receives(c)
    /\ loggedIn[c] = 1
    /\ type = "ACCEPT" =>
          Len(games) + Cardinality({k \in Conns : OwnLocked(k)
                                      /\ work[k].type = "ACCEPT"}) < MaxGames
    /\ pc' = [pc EXCEPT ![c] = "locked"]
    /\ work' = [work EXCEPT ![c] =
                  [NoReq EXCEPT !.type = type, !.id = id, !.text = text]]
    /\ UNCHANGED <<clients, invs, games, players, creg, conn, loggedIn,
                   pending, waitingForEmpty, wpc>>

\* the locks the operation under way takes and holds together
HeldLocks(c) ==
    LET h == Heap([k \in Conns |-> -1])
        id == work[c].id
    IN  CASE work[c].type = "REVOKE" -> client_revoke_invitation_locks(h, c, id)
          [] work[c].type = "DECLINE" -> client_decline_invitation_locks(h, c, id)
          [] work[c].type = "ACCEPT" -> client_accept_invitation_locks(h, c, id)
          [] work[c].type = "MOVE" -> client_make_move_locks(h, c, id)
          [] work[c].type = "RESIGN" -> client_resign_game_locks(h, c, id)

\* the CLIENT whose clientMutex the thread of c is to lock next, NULL if the
\* operation returns without a second lock
Awaits(c) ==
    IF OwnLocked(c) /\ Len(HeldLocks(c)) = 2 THEN HeldLocks(c)[2] ELSE NULL

\* the operation under way, from its second lock to the answer
ServeLocked(c, b) ==
    CASE work[c].type = "REVOKE" -> ServeRevoke(c, work[c].id, b)
      [] work[c].type = "DECLINE" -> ServeDecline(c, work[c].id, b)
      [] work[c].type = "ACCEPT" -> ServeAccept(c, work[c].id, b)
      [] work[c].type = "MOVE" -> ServeMove(c, work[c].id, work[c].text, b)
      [] work[c].type = "RESIGN" -> ServeResign(c, work[c].id, b)

\* pthread_mutex_lock of the other party (the mutex is recursive: a thread
\* does not wait for a lock it holds), the rest of the operation, the unlocks
LockPeer(c) ==
    /\ OwnLocked(c)
    /\ IF Awaits(c) \in {NULL, c} THEN TRUE ELSE ~OwnLocked(Awaits(c))
    /\ \E b \in Budgets({}) : Commit(ServeLocked(c, b).h, {})
    /\ pc' = [pc EXCEPT ![c] = "recv"]
    /\ work' = [work EXCEPT ![c] = NoReq]
    /\ UNCHANGED <<creg, loggedIn, pending, waitingForEmpty, wpc>>

InviteUnlocked(c, name, role) ==
    /\ \A k \in Conns : ~OwnLocked(k)
    /\ Invite(c, name, role)

NextLocks ==
    \/ \E c \in Conns : \E name \in InviteNames : \E role \in RoleFields :
          InviteUnlocked(c, name, role)
    \/ \E c \in Conns : \E type \in LockedTypes : \E id \in Ids(c) :
          \E text \in (IF type = "MOVE" THEN MoveTexts ELSE {<<>>}) :
             LockOwn(c, type, id, text)
    \/ \E c \in Conns : LockPeer(c)

SpecLocks == InitLoggedIn /\ [][NextLocks]_vars

----------------------------------------------------------------------------
(* The end of a session, statement by statement.  On EOF the thread closes  *)
(* connfd before it logs the client out and unregisters it, and the main    *)
(* thread goes on accepting: accept() returns the lowest descriptor that is *)
(* free, so a descriptor that was closed names the socket of a later        *)
(* connection from then on ("reused"), while CLIENTs of the session that    *)
(* closed it still hold its number.  The run starts with two clients logged *)
(* in, who invite each other, accept and resign.                            *)

\* close(connfd) on EOF
EofClose(c) ==
    /\ pc[c] = "recv"
    /\ conn[c] \in {"hungup", "broken"}
    /\ conn' = [conn EXCEPT ![c] = "closed"]
    /\ pc' = [pc EXCEPT ![c] = "closing"]
    /\ UNCHANGED <<work, clients, invs, games, players, creg, loggedIn, pending,
                   waitingForEmpty, wpc>>

\* accept() in main gives a new connection the lowest free descriptor
AcceptReuse(c) ==
    /\ conn[c] = "closed"
    /\ \A k \in Conns : conn[k] = "closed" => c <= k
    /\ conn' = [conn EXCEPT ![c] = "reused"]
    /\ UNCHANGED <<work, clients, invs, games, players, creg, pc, loggedIn,
                   pending, waitingForEmpty, wpc>>

\* the EOF branch after close(connfd): client_logout, creg_unregister
EofFinish(c) ==
    /\ pc[c] = "closing"
    /\ \E b \in Budgets({}) : Commit(Unregistered(ServeEof(c, b).h, c), {})
    /\ creg' = creg_unregister(creg, c).cr
    /\ pc' = [pc EXCEPT ![c] = "exit"]
    /\ UNCHANGED <<work, loggedIn, pending, waitingForEmpty, wpc>>

NextReuse ==
    \/ \E c \in Conns : \E name \in InviteNames : \E role \in RoleFields :
          Invite(c, name, role)
    \/ \E c \in Conns : \E id \in Ids(c) : Accept(c, id)
    \/ \E c \in Conns : \E id \in Ids(c) : Resign(c, id)
    \/ \E c \in Conns : PeerCloses(c)
    \/ \E c \in Conns : EofClose(c)
    \/ \E c \in Conns : AcceptReuse(c)
    \/ \E c \in Conns : EofFinish(c)

SpecReuse == InitLoggedIn /\ [][NextReuse]_vars

----------------------------------------------------------------------------
(* Properties *)

\* the CLIENTs in the client registry
Registered == {creg.clients[i] : i \in Slots} \ {NULL}

\* a logged-in CLIENT whose thread is at the head of the service loop
Serving(c) == Receives(c) /\ loggedIn[c] = 1

\* the other party of an INVITATION
Opponent(h, inv, client) ==
    IF client = inv_get_source(h, inv)
    THEN inv_get_target(h, inv) ELSE inv_get_source(h, inv)

\* the role a party of an INVITATION plays
RoleOf(h, inv, client) ==
    IF client = inv_get_source(h, inv)
    THEN inv_get_source_role(h, inv) ELSE inv_get_target_role(h, inv)

\* the INVITATION is in the list of the CLIENT
Listed(h, client, inv) == get_invite_node_from_inv(h, client, inv) # NULL

\* C1: no two CLIENTs in the client registry are logged in under the same
\* user name, however the LOGIN requests of the connections interleave.
C1_LoginUnique ==
    \A c1 \in Registered, c2 \in Registered :
        (/\ c1 # c2
         /\ clients[c1].player # NULL
         /\ clients[c2].player # NULL)
        => players[clients[c1].player].name # players[clients[c2].player].name

\* the heaps the requests served in a state may start from: one for each
\* way the dying sockets may take the writes
Heaps == {Heap(b) : b \in Budgets({})}

AllTexts == MoveTexts \cup PlayTexts

\* the answers the thread of connection c may give to the request it reads
\* next, with the heap each leaves
Answers(c) ==
    UNION { {ServeUsers(c, b), ServeOther(c, b)}
            \cup {ServeInvite(c, name, role, b) :
                     name \in InviteNames, role \in RoleFields}
            \cup {ServeRevoke(c, id, b) : id \in Ids(c)}
            \cup {ServeDecline(c, id, b) : id \in Ids(c)}
            \cup {ServeAccept(c, id, b) : id \in Ids(c)}
            \cup {ServeMove(c, id, text, b) : id \in Ids(c), text \in AllTexts}
            \cup {ServeResign(c, id, b) : id \in Ids(c)} :
            b \in Budgets({}) }

\* the heaps the steps a state allows may leave, a logout on EOF included
Outcomes ==
    UNION { IF Receives(c) THEN {a.h : a \in Answers(c)}
            ELSE IF pc[c] = "recv" /\ conn[c] \in {"hungup", "broken"}
            THEN {Unregistered(ServeEof(c, b).h, c) : b \in Budgets({c})}
            ELSE {} : c \in Conns }

\* the objects are as the state has them
Same(h) ==
    /\ Settle(h).clients = clients
    /\ Settle(h).invs = invs
    /\ Settle(h).games = games
    /\ Settle(h).players = players

InvStep(s, t) ==
    \/ s = t
    \/ s = INV_OPEN_STATE /\ t = INV_ACCEPTED_STATE
    \/ s = INV_OPEN_STATE /\ t = INV_CLOSED_STATE
    \/ s = INV_ACCEPTED_STATE /\ t = INV_CLOSED_STATE

InProgress(h, inv) ==
    /\ inv_get_game(h, inv) # NULL
    /\ game_is_over(h.games[inv_get_game(h, inv)]) = 0

\* what inv_accept and inv_close do to the INVITATION inv of heap h
InvUnit(h, inv) ==
    LET s == h.invs[inv].state
        a == inv_accept(h, inv)
    IN  /\ IF s = INV_OPEN_STATE
           THEN /\ a.ret = 0
                /\ a.h.invs[inv].state = INV_ACCEPTED_STATE
                /\ h.invs[inv].game = NULL
                /\ a.h.invs[inv].game = Len(h.games) + 1
                /\ a.h.games[a.h.invs[inv].game] = game_create
           ELSE a.ret = -1 /\ a.h = h
        /\ \A role \in {NULL_ROLE, FIRST_PLAYER_ROLE, SECOND_PLAYER_ROLE} :
              LET c == inv_close(h, inv, role)
              IN  IF s = INV_CLOSED_STATE
                  THEN c.ret = -1 /\ c.h = h
                  ELSE IF /\ s = INV_ACCEPTED_STATE
                          /\ role = NULL_ROLE
                          /\ InProgress(h, inv)
                  THEN c.ret = -1 /\ c.h = h
                  ELSE c.ret = 0 /\ c.h.invs[inv].state = INV_CLOSED_STATE

\* C2: the state of an INVITATION changes only from OPEN to ACCEPTED (by
\* inv_accept, which creates the GAME), from OPEN to CLOSED and from ACCEPTED
\* to CLOSED (by inv_close); once it is CLOSED inv_accept and inv_close
\* return an error and leave it CLOSED; inv_accept fails unless the state is
\* OPEN; inv_close with NULL_ROLE fails on an ACCEPTED invitation whose game
\* is in progress and leaves it ACCEPTED.
C2_InvitationStates ==
    /\ \A inv \in LiveInvs(invs) : \A h \in Heaps :
          /\ InvUnit(h, inv)
          /\ InvUnit(inv_accept(h, inv).h, inv)
          /\ \A role \in {NULL_ROLE, FIRST_PLAYER_ROLE, SECOND_PLAYER_ROLE} :
                InvUnit(inv_close(h, inv, role).h, inv)
    /\ \A h \in Outcomes : \A inv \in LiveInvs(invs) :
          /\ InvStep(invs[inv].state, h.invs[inv].state)
          /\ (invs[inv].state = INV_OPEN_STATE
                 /\ h.invs[inv].state = INV_ACCEPTED_STATE)
             => /\ invs[inv].game = NULL
                /\ h.invs[inv].game = Len(games) + 1
                /\ h.games[h.invs[inv].game] = game_create

\* C2, its case: an OPEN invitation and an ACCEPTED one with its game in
\* progress, and a step at hand that closes the ACCEPTED one
C2_Witness ==
    \E i1 \in LiveInvs(invs), i2 \in LiveInvs(invs) :
        /\ invs[i1].state = INV_OPEN_STATE
        /\ invs[i2].state = INV_ACCEPTED_STATE
        /\ games[invs[i2].game].isOver = 0
        /\ \E h \in Outcomes : h.invs[i2].state = INV_CLOSED_STATE
        /\ \E h \in Outcomes : h.invs[i1].state = INV_ACCEPTED_STATE

\* the piece of a role: 1 is X, the first player's, 0 is O
PieceOf(role) == IF role = FIRST_PLAYER_ROLE THEN 1 ELSE 0

\* C3: client_make_move succeeds only when the piece of the parsed move is
\* the piece of the role the moving client plays in the game; a move with the
\* piece of the other role is rejected and the game is left as it was.
C3_OwnPieceOnly ==
    \A c \in Conns : Serving(c) =>
      \A id \in Ids(c), text \in AllTexts, h \in Heaps :
        LET current == get_invite_node_from_id(h, c, id)
            inv == clients[c].inviteHead[current].invitation
            game == inv_get_game(h, inv)
            gameMove == game_parse_move(h.games[game], RoleOf(h, inv, c), text)
            r == client_make_move(h, c, id, text)
        IN  (current # NULL /\ game # NULL /\ ~gameMove.null
                /\ gameMove.piece # PieceOf(RoleOf(h, inv, c)))
            => (r.ret = -1 /\ r.h.games = h.games)

\* C4: client_accept_invitation succeeds only when the caller is the target
\* of the invitation and the invitation is OPEN; called by the source with
\* the source's own ID it fails, creates no game and leaves the invitation
\* OPEN; on an invitation already accepted, or one no longer in the list, it
\* fails.
C4_AcceptByTargetOnly ==
    \A c \in Conns : Serving(c) =>
      \A id \in Ids(c), h \in Heaps :
        LET current == get_invite_node_from_id(h, c, id)
            inv == clients[c].inviteHead[current].invitation
            r == client_accept_invitation(h, c, id)
        IN  /\ r.ret = 0 => /\ current # NULL
                            /\ inv_get_target(h, inv) = c
                            /\ h.invs[inv].state = INV_OPEN_STATE
            /\ (current # NULL /\ inv_get_source(h, inv) = c
                   /\ h.invs[inv].state = INV_OPEN_STATE)
               => /\ r.ret = -1
                  /\ r.h.games = h.games
                  /\ r.h.invs[inv].state = INV_OPEN_STATE

\* the packets of the type written to the CLIENT in a step, in order
Written(h, to, type) ==
    SelectSeq(h.out, LAMBDA pkt : pkt.to = to /\ pkt.type = type)

\* the ID the CLIENT has given the INVITATION
LocalId(h, client, inv) ==
    h.clients[client].inviteHead[get_invite_node_from_inv(h, client, inv)].id

\* C5: client_revoke_invitation succeeds only if the ID names an entry of the
\* caller's list, the caller is the source and the invitation is OPEN; after
\* a success the invitation is CLOSED and in neither list, one REVOKED packet
\* with the target's ID of it has been written to the target, and a second
\* REVOKE with the same ID fails.
C5_RevokeOnce ==
    \A c \in Conns : Serving(c) =>
      \A id \in Ids(c), h \in Heaps :
        LET current == get_invite_node_from_id(h, c, id)
            inv == clients[c].inviteHead[current].invitation
            target == inv_get_target(h, inv)
            r == client_revoke_invitation(h, c, id)
        IN  r.ret = 0 =>
              /\ current # NULL
              /\ inv_get_source(h, inv) = c
              /\ h.invs[inv].state = INV_OPEN_STATE
              /\ r.h.invs[inv].state = INV_CLOSED_STATE
              /\ ~Listed(r.h, c, inv)
              /\ ~Listed(r.h, target, inv)
              /\ Len(Written(r.h, target, "REVOKED")) = 1
              /\ Written(r.h, target, "REVOKED")[1].id = LocalId(h, target, inv)
              /\ client_revoke_invitation(Settle(r.h), c, id).ret = -1

\* C6: client_decline_invitation succeeds only if the ID names an entry of
\* the caller's list, the caller is the target and the invitation is OPEN;
\* after a success the invitation is CLOSED and in neither list, one DECLINED
\* packet with the source's ID of it has been written to the source, and an
\* ACCEPT by the target with the same ID fails.
C6_DeclineOnce ==
    \A c \in Conns : Serving(c) =>
      \A id \in Ids(c), h \in Heaps :
        LET current == get_invite_node_from_id(h, c, id)
            inv == clients[c].inviteHead[current].invitation
            source == inv_get_source(h, inv)
            r == client_decline_invitation(h, c, id)
        IN  r.ret = 0 =>
              /\ current # NULL
              /\ inv_get_target(h, inv) = c
              /\ h.invs[inv].state = INV_OPEN_STATE
              /\ r.h.invs[inv].state = INV_CLOSED_STATE
              /\ ~Listed(r.h, c, inv)
              /\ ~Listed(r.h, source, inv)
              /\ Len(Written(r.h, source, "DECLINED")) = 1
              /\ Written(r.h, source, "DECLINED")[1].id = LocalId(h, source, inv)
              /\ client_accept_invitation(Settle(r.h), c, id).ret = -1

WrittenAt(h, i, to, type, id, role) ==
    /\ i \in 1..Len(h.out)
    /\ h.out[i].to = to
    /\ h.out[i].type = type
    /\ h.out[i].id = id
    /\ h.out[i].role = role

\* the games the step from heap h to heap hh has ended are announced: ENDED
\* with the own ID and the code of the winner to both parties and, if a party
\* resigned, RESIGNED to the other party before its ENDED
Announced(h, hh, resigner) ==
    \A inv \in LiveInvs(h.invs) :
        (InProgress(h, inv) /\ ~InProgress(hh, inv)) =>
            LET source == inv_get_source(h, inv)
                target == inv_get_target(h, inv)
                code == RoleCode(game_get_winner(hh.games[inv_get_game(h, inv)]))
            IN  /\ \E i \in 1..Len(hh.out) :
                      WrittenAt(hh, i, source, "ENDED", LocalId(h, source, inv), code)
                /\ \E i \in 1..Len(hh.out) :
                      WrittenAt(hh, i, target, "ENDED", LocalId(h, target, inv), code)
                /\ resigner # NULL =>
                     LET opponent == Opponent(h, inv, resigner)
                         opponentId == LocalId(h, opponent, inv)
                     IN  \E i \in 1..Len(hh.out), j \in 1..Len(hh.out) :
                            /\ i < j
                            /\ WrittenAt(hh, i, opponent, "RESIGNED", opponentId, 0)
                            /\ WrittenAt(hh, j, opponent, "ENDED", opponentId, code)

\* C8: whenever a game ends, by a last move, by RESIGN or by the logout of a
\* party whose connection has ended, an ENDED packet with the own ID and the
\* code of the winner is written to both parties, and RESIGNED is written
\* before ENDED to the opponent of the party that resigned or went away.
C8_EndAnnounced ==
    \A c \in Conns :
      /\ Serving(c) =>
           \A id \in Ids(c), h \in Heaps :
              /\ \A text \in AllTexts :
                    Announced(h, client_make_move(h, c, id, text).h, NULL)
              /\ Announced(h, client_resign_game(h, c, id).h, c)
      /\ (pc[c] = "recv" /\ conn[c] \in {"hungup", "broken"} /\ loggedIn[c] = 1) =>
           \A b \in Budgets({c}) : Announced(Heap(b), ServeEof(c, b).h, c)

\* C9: after a client_make_move that ends the game the invitation is CLOSED
\* and in neither list and the ratings have changed once, by the result the
\* winner of the game gives (a draw if there is none); after a move that
\* leaves the game in progress the invitation is ACCEPTED and in both lists
\* and no rating has changed.
C9_MoveEnds ==
    \A c \in Conns : Serving(c) =>
      \A id \in Ids(c), text \in AllTexts, h \in Heaps :
        LET current == get_invite_node_from_id(h, c, id)
            inv == clients[c].inviteHead[current].invitation
            game == inv_get_game(h, inv)
            opponent == Opponent(h, inv, c)
            r == client_make_move(h, c, id, text)
            winner == game_get_winner(r.h.games[game])
            result == IF winner = NULL_ROLE THEN 0
                      ELSE IF winner = RoleOf(h, inv, c) THEN 1 ELSE 2
        IN  (current # NULL /\ InProgress(h, inv)
                /\ r.h.games[game] # h.games[game]) =>
              IF game_is_over(r.h.games[game]) = 1
              THEN /\ r.h.invs[inv].state = INV_CLOSED_STATE
                   /\ ~Listed(r.h, c, inv)
                   /\ ~Listed(r.h, opponent, inv)
                   /\ r.h.players =
                         player_post_result(h.players, client_get_player(h, c),
                                            client_get_player(h, opponent), result)
              ELSE /\ r.h.invs[inv].state = INV_ACCEPTED_STATE
                   /\ Listed(r.h, c, inv)
                   /\ Listed(r.h, opponent, inv)
                   /\ r.h.players = h.players

\* C10: whenever the service loop answers a request with NACK, the request
\* has changed nothing: the clients, invitations, games and players are as
\* they were.
C10_NackChangesNothing ==
    \A c \in Conns :
      /\ Receives(c) => \A a \in Answers(c) : a.resp = "NACK" => Same(a.h)
      /\ pc[c] = "login" =>
           (ServeLoginFinish(c).resp = "NACK" => Same(ServeLoginFinish(c).h))

\* the requests the peer of connection c may send next, LOGIN apart
Requests(c) ==
    {<<"USERS">>}
    \cup {<<"INVITE", name, role>> : name \in InviteNames, role \in RoleFields}
    \cup {<<type, id>> : type \in {"REVOKE", "DECLINE", "ACCEPT", "RESIGN"},
                         id \in Ids(c)}
    \cup {<<"MOVE", id, text>> : id \in Ids(c), text \in AllTexts}

\* the answer of the thread of connection c to the request
Serve(c, req, b) ==
    CASE req[1] = "USERS" -> ServeUsers(c, b)
      [] req[1] = "INVITE" -> ServeInvite(c, req[2], req[3], b)
      [] req[1] = "REVOKE" -> ServeRevoke(c, req[2], b)
      [] req[1] = "DECLINE" -> ServeDecline(c, req[2], b)
      [] req[1] = "ACCEPT" -> ServeAccept(c, req[2], b)
      [] req[1] = "MOVE" -> ServeMove(c, req[2], req[3], b)
      [] req[1] = "RESIGN" -> ServeResign(c, req[2], b)

\* every socket takes every write
AllWritten == [k \in Conns |-> -1]

\* a write of the step to a peer has failed
WriteFailed(h) == \E i \in 1..Len(h.out) : ~h.out[i].ok

\* C11: when the write of a notification to a peer fails, the request is still
\* answered ACK, and what the request changes when its writes succeed is
\* changed then too.
C11_PeerWriteFailureKeepsSuccess ==
    \A c \in Conns : Serving(c) =>
      \A req \in Requests(c), b \in Budgets({}) :
        LET a == Serve(c, req, b)
            good == Serve(c, req, AllWritten)
        IN  WriteFailed(a.h) =>
              /\ a.resp = "ACK"
              /\ ~Same(good.h) => ~Same(a.h)

\* C12: every frame the service loop reads is answered with one response, ACK
\* or NACK, before the next frame is read, and a frame of a type that is none
\* of LOGIN, USERS, INVITE, REVOKE, DECLINE, ACCEPT, MOVE, RESIGN is answered
\* NACK.
C12_OneAnswerPerFrame ==
    \A c \in Conns :
      /\ Receives(c) =>
           /\ \A a \in Answers(c) : a.resp \in {"ACK", "NACK"}
           /\ \A b \in Budgets({}) : ServeOther(c, b).resp = "NACK"
      /\ pc[c] = "login" => ServeLoginFinish(c).resp \in {"ACK", "NACK"}

\* C13: until the LOGIN of a connection has succeeded, every USERS, INVITE,
\* REVOKE, DECLINE, ACCEPT, MOVE and RESIGN request on it is answered NACK
\* and changes nothing; once it has succeeded, every LOGIN on the connection
\* is answered NACK (the branch leaves the player of the client as it is).
C13_LoginGate ==
    \A c \in Conns : Receives(c) =>
      /\ loggedIn[c] = 1 <=> clients[c].player # NULL
      /\ clients[c].player = NULL =>
           \A req \in Requests(c), b \in Budgets({}) :
              LET a == Serve(c, req, b)
              IN  a.resp = "NACK" /\ Same(a.h)
      /\ clients[c].player # NULL =>
           \A k \in 1..Len(Names) : ServeLoginLookup(c, Names[k]) = "NACK"

\* C13, its case: one connection is logged in and reads its next frame while
\* another, registered and not logged in, reads a frame too
C13_Witness ==
    \E c1 \in Conns, c2 \in Conns :
        /\ Receives(c1) /\ clients[c1].player = NULL /\ c1 \in Registered
        /\ Receives(c2) /\ clients[c2].player # NULL
        /\ creg_lookup(creg, clients, players, Names[1]) = c2

\* C14: the entries of the invitation list of a client have pairwise distinct
\* IDs in every state, so that an ID names at most one invitation of the list.
C14_DistinctIds ==
    \A c \in Conns :
      \A i \in 1..Len(clients[c].inviteHead), j \in 1..Len(clients[c].inviteHead) :
        i # j => clients[c].inviteHead[i].id # clients[c].inviteHead[j].id

\* C15: the IDs client_add_invitation gives out on one client grow strictly
\* over the life of the client: the counter the next ID is taken from never
\* goes down, so no ID is given out a second time.
C15_IdsNeverReused ==
    [][\A c \in Conns :
          pc[c] # "start" => clients'[c].invites >= clients[c].invites]_vars

\* C16: a successful client_make_invitation leaves the new invitation OPEN and
\* in the lists of the source and of the target, has written one INVITED
\* packet to the target with the target's ID of it, the target's role and the
\* name of the source, and returns the ID the source's list gave it, for the
\* first invitation of the source and for every later one; with the source as
\* the target it fails and changes nothing.
C16_MakeInvitation ==
    \A c \in Conns : Serving(c) =>
      \A target \in Conns, role \in RoleFields, h \in Heaps :
        clients[target].player # NULL =>
          LET inv == inv_create(h, c, target, SourceRole(role), TargetRole(role)).ret
              r == client_make_invitation(h, c, target, SourceRole(role),
                                          TargetRole(role))
              pkts == Written(r.h, target, "INVITED")
          IN  /\ target = c => (r.ret = -1 /\ r.h = h)
              /\ r.ret # -1 =>
                   /\ r.h.invs[inv].state = INV_OPEN_STATE
                   /\ Listed(r.h, c, inv)
                   /\ Listed(r.h, target, inv)
                   /\ Len(pkts) = 1
                   /\ pkts[1].id = LocalId(r.h, target, inv)
                   /\ pkts[1].role = TargetRole(role)
                   /\ pkts[1].data = <<player_get_name(h, client_get_player(h, c))>>
                   /\ r.ret = LocalId(r.h, c, inv)

\* C17: after a successful ACCEPT the party that plays the first role, and
\* only that party, is given the initial board: if the source plays first,
\* the ACCEPTED packet to the source holds the board and the ACK to the
\* accepter holds nothing; if not, the ACCEPTED packet holds nothing and the
\* ACK to the accepter, who then plays first, holds the board.
C17_BoardToFirst ==
    \A c \in Conns : Serving(c) =>
      \A id \in Ids(c), b \in Budgets({}) :
        LET h == Heap(b)
            current == get_invite_node_from_id(h, c, id)
            inv == clients[c].inviteHead[current].invitation
            source == inv_get_source(h, inv)
            a == ServeAccept(c, id, b)
            pkts == Written(a.h, source, "ACCEPTED")
            board == game_unparse_state(game_create)
        IN  a.resp = "ACK" =>
              /\ Len(pkts) = 1
              /\ IF inv_get_source_role(h, inv) = FIRST_PLAYER_ROLE
                 THEN /\ pkts[1].data = board
                      /\ a.data = <<>>
                 ELSE /\ pkts[1].data = <<>>
                      /\ a.data = board
                      /\ RoleOf(h, inv, c) = FIRST_PLAYER_ROLE

ShutdownIssued == \E w \in Waiters : wpc[w] # "idle"

\* C19: once creg_shutdown_all has been issued, with no more frames from the
\* peers, every service thread reads end-of-input, logs out if logged in,
\* unregisters and exits: in the end the client registry is empty.
C19_ShutdownEmptiesRegistry ==
    ShutdownIssued ~> (creg.numClients = 0 /\ \A c \in Conns : pc[c] = "exit")

\* C20: a caller of creg_wait_for_empty that waits is released in the end
\* once the registry is empty, however many callers there are and however
\* their steps fall between those of creg_register and creg_unregister.
C20_WaitersReleased ==
    \A w \in Waiters :
        (wpc[w] \in {"P1", "set", "P2"} /\ creg.numClients = 0)
            ~> (wpc[w] = "done")

\* C21: the client registry never holds more than MAX_CLIENTS clients and
\* numClients is the number of occupied slots; creg_register on a full
\* registry returns NULL and changes nothing; a newly created CLIENT has
\* count 1 and no player; creg_unregister of a CLIENT that is in no slot
\* returns -1 and changes nothing.
C21_RegistryContract ==
    /\ creg.numClients <= MAX_CLIENTS
    /\ creg.numClients = Cardinality({i \in Slots : creg.clients[i] # NULL})
    /\ \A c \in Conns :
          LET r == creg_register(creg, c)
              u == creg_unregister(creg, c)
          IN  /\ creg.numClients = MAX_CLIENTS => (r.ret = NULL /\ r.cr = creg)
              /\ r.ret # NULL => (client_create.count = 1
                                    /\ client_create.player = NULL)
              /\ c \notin Registered => (u.ret = -1 /\ u.cr = creg)

\* C22: the player registry holds at most one PLAYER for a name, also when
\* the LOGINs of two connections for one name run side by side; preg_register
\* returns the PLAYER that has the name, as it is, if there is one, and a new
\* PLAYER with rating 1500 if not; after the logout of a client preg_register
\* with the name of its player returns that player with the rating it had.
C22_PlayerRegistry ==
    /\ \A p \in 1..Len(players), q \in 1..Len(players) :
          p # q => players[p].name # players[q].name
    /\ \A k \in 1..Len(Names) :
          LET r == preg_register(players, Names[k])
              known == {p \in 1..Len(players) : players[p].name = Names[k]}
          IN  IF known = {}
              THEN /\ r.ret = Len(players) + 1
                   /\ r.ps = Append(players, [name |-> Names[k],
                                              rating |-> PLAYER_INITIAL_RATING])
              ELSE r.ret \in known /\ r.ps = players
    /\ \A c \in Conns : (pc[c] = "recv" /\ clients[c].player # NULL) =>
          \A b \in Budgets({}) \cup Budgets({c}) :
             LET p == clients[c].player
                 out == client_logout(Heap(b), c).h
                 again == preg_register(out.players, players[p].name)
             IN  /\ again.ret = p
                 /\ again.ps[p].rating = out.players[p].rating
                 /\ Len(again.ps) = Len(players)

\* C22, its case: two connections have logged in under one name side by
\* side, and the one PLAYER of the name serves both
C22_Witness ==
    /\ Len(players) = 1
    /\ \E c1 \in Conns, c2 \in Conns :
          /\ c1 # c2
          /\ clients[c1].player = 1
          /\ clients[c2].player = 1

\* C23: game_apply_move returns -1 and leaves the game as it is if the game
\* is over, the square of the move is taken, or the piece of the move is not
\* the piece whose turn it is; if not, it puts the piece on that square,
\* leaves the other eight squares as they are and gives the turn to the other
\* piece; game_create leaves an empty board with X, the first player's piece,
\* to move.
C23_ApplyMove ==
    /\ game_create.game_board = [i \in 0..8 |-> -1]
    /\ game_create.expectedPiece = PieceOf(FIRST_PLAYER_ROLE)
    /\ game_create.isOver = 0
    /\ game_create.winner = NULL_ROLE
    /\ \A g \in 1..Len(games) : \A placement \in Cells, piece \in Pieces :
          LET game == games[g]
              r == game_apply_move(game, [piece |-> piece, placement |-> placement])
          IN  IF \/ game.isOver # 0
                 \/ game.game_board[placement - 1] # -1
                 \/ piece # game.expectedPiece
              THEN r.ret = -1 /\ r.game = game
              ELSE /\ r.ret = 0
                   /\ r.game.game_board[placement - 1] = piece
                   /\ \A i \in 0..8 : i # placement - 1 =>
                         r.game.game_board[i] = game.game_board[i]
                   /\ r.game.expectedPiece \in Pieces
                   /\ r.game.expectedPiece # game.expectedPiece

\* C23, its case: a game in progress with O to move and squares taken, so
\* that a move can fail for the square, fail for the piece, or succeed
C23_Witness ==
    \E g \in 1..Len(games) :
        /\ games[g].isOver = 0
        /\ games[g].expectedPiece = 0
        /\ Cardinality({i \in 0..8 : games[g].game_board[i] # -1}) >= 3

\* the lines of the board as sets of squares: rows, columns, diagonals
RefLines ==
    {{3 * r + k : k \in 0..2} : r \in 0..2}
    \cup {{r + 3 * k : k \in 0..2} : r \in 0..2}
    \cup {{0, 4, 8}, {2, 4, 6}}

\* the pieces that hold all three squares of some line of the board
RefWinners(board) ==
    {piece \in Pieces : \E l \in RefLines : \A i \in l : board[i] = piece}

\* C24: after every successful game_apply_move on a board reached by legal
\* play the game is over and won by the role of a piece exactly if one of
\* the 8 lines holds three of that piece, over with no winner exactly if no
\* line is complete and all 9 squares are taken, and not over otherwise.
C24_OverAndWinner ==
    \A g \in 1..Len(games) : \A placement \in Cells, piece \in Pieces :
        LET r == game_apply_move(games[g], [piece |-> piece,
                                            placement |-> placement])
            board == r.game.game_board
            full == \A i \in 0..8 : board[i] # -1
        IN  r.ret = 0 =>
              /\ Cardinality(RefWinners(board)) <= 1
              /\ \A p \in Pieces :
                    (r.game.isOver = 1 /\ r.game.winner # NULL_ROLE
                        /\ PieceOf(r.game.winner) = p)
                    <=> p \in RefWinners(board)
              /\ (r.game.isOver = 1 /\ r.game.winner = NULL_ROLE)
                    <=> (RefWinners(board) = {} /\ full)
              /\ r.game.isOver = 0 <=> (RefWinners(board) = {} /\ ~full)
              /\ r.game.isOver \in {0, 1}
              /\ r.game.winner \in {NULL_ROLE, FIRST_PLAYER_ROLE, SECOND_PLAYER_ROLE}

\* C24, its case: the ninth move of a game has filled the board and
\* completed a line at once, and the game is won
C24_Witness ==
    \E g \in 1..Len(games) :
        /\ \A i \in 0..8 : games[g].game_board[i] # -1
        /\ RefWinners(games[g].game_board) = {1}
        /\ games[g].isOver = 1
        /\ games[g].winner = FIRST_PLAYER_ROLE

\* move texts whose first character is no digit 1..9
StrayTexts == { <<"0", "X">>, <<":", "O">>, <<"a", "-", ">", "x">> }

\* C25: game_parse_move returns no move for a text whose first character is
\* not a digit 1..9, so that client_make_move hands no move with a square
\* outside 1..9 to game_apply_move, and the MOVE request is answered NACK.
C25_StrayCellRejected ==
    \A c \in Conns : Serving(c) =>
      \A id \in Ids(c), text \in StrayTexts, b \in Budgets({}) :
        LET h == Heap(b)
            current == get_invite_node_from_id(h, c, id)
            inv == clients[c].inviteHead[current].invitation
            game == inv_get_game(h, inv)
            gameMove == game_parse_move(h.games[game], RoleOf(h, inv, c), text)
        IN  (current # NULL /\ game # NULL) =>
              /\ gameMove.null
              /\ ServeMove(c, id, text, b).resp = "NACK"

\* the move texts that hold a digit 1..9 and nothing else
CellOnlyTexts == { <<"1">>, <<"5">>, <<"9">> }

\* C26: game_parse_move takes a text that holds only a digit 1..9, with no
\* separator and no piece letter, as a move of the given role on that square.
C26_CellOnlyAccepted ==
    \A c \in Conns : Serving(c) =>
      \A id \in Ids(c), text \in CellOnlyTexts, h \in Heaps :
        LET current == get_invite_node_from_id(h, c, id)
            inv == clients[c].inviteHead[current].invitation
            game == inv_get_game(h, inv)
            role == RoleOf(h, inv, c)
            gameMove == game_parse_move(h.games[game], role, text)
        IN  (current # NULL /\ game # NULL) =>
              /\ ~gameMove.null
              /\ gameMove.placement = Ord(text[1]) - 48
              /\ gameMove.piece = PieceOf(role)

\* C27: for every move with a square 1..9 and a piece X or O, game_parse_move
\* of the text game_unparse_move gives for it yields a move with the same
\* square and the same piece, whatever the game and the role.
C27_RoundTrip ==
    \A g \in 1..Len(games) :
      \A placement \in Cells, piece \in Pieces,
         role \in {NULL_ROLE, FIRST_PLAYER_ROLE, SECOND_PLAYER_ROLE} :
        LET move == [piece |-> piece, placement |-> placement]
            back == game_parse_move(games[g], role, game_unparse_move(move))
        IN  /\ ~back.null
            /\ back.placement = placement
            /\ back.piece = piece

\* C27, its case: a game with both pieces on the board and O to move, where
\* the text of a move of O, parsed again, is a move the game takes
C27_Witness ==
    \E g \in 1..Len(games) :
        /\ games[g].expectedPiece = 0
        /\ \E i \in 0..8 : games[g].game_board[i] = 0
        /\ \E placement \in Cells :
              LET move == [piece |-> 0, placement |-> placement]
                  back == game_parse_move(games[g], SECOND_PLAYER_ROLE,
                                          game_unparse_move(move))
              IN  /\ game_unparse_move(move)[4] = "O"
                  /\ game_apply_move(games[g], back).ret = 0

\* the sum of the ratings of the players
RECURSIVE RatingSum(_)
RatingSum(ps) == IF ps = <<>> THEN 0 ELSE Head(ps).rating + RatingSum(Tail(ps))

\* C28: for every pair of ratings and every result (draw, player1 won,
\* player2 won) player_post_result changes the two ratings so that their sum
\* moves by 1 at most; from 1500 and 1500 a win gives the winner 1516 and
\* the loser 1484, and a draw leaves both at 1500.
C28_RatingSum ==
    \A p1 \in 1..Len(players), p2 \in 1..Len(players), result \in 0..2 :
        p1 # p2 =>
          LET after == player_post_result(players, p1, p2, result)
              change == RatingSum(after) - RatingSum(players)
          IN  /\ change \in {-1, 0, 1}
              /\ \A p \in 1..Len(players) :
                    p \notin {p1, p2} => after[p] = players[p]
              /\ (players[p1].rating = 1500 /\ players[p2].rating = 1500) =>
                    /\ after[p1].rating = CASE result = 0 -> 1500
                                            [] result = 1 -> 1516
                                            [] result = 2 -> 1484
                    /\ after[p2].rating = CASE result = 0 -> 1500
                                            [] result = 1 -> 1484
                                            [] result = 2 -> 1516

\* C28, its case: results have been posted, the ratings are more than 32
\* apart, and a win of the player with the lower rating moves both ratings
\* by more than 16
C28_Witness ==
    /\ Len(players) = 2
    /\ players[1].rating > players[2].rating + 32
    /\ LET after == player_post_result(players, 2, 1, 1)
       IN  /\ after[2].rating > players[2].rating + 16
           /\ after[1].rating < players[1].rating - 16

\* the number of nodes of the list of the CLIENT that hold the INVITATION
Holds(h, client, inv) ==
    Cardinality({k \in 1..Len(h.clients[client].inviteHead) :
                    h.clients[client].inviteHead[k].invitation = inv})

\* the INVITATIONs in the lists of the CLIENTs
ListedInvs ==
    UNION {{clients[c].inviteHead[k].invitation :
               k \in 1..Len(clients[c].inviteHead)} : c \in Conns}

\* C29: in every state an INVITATION that is in the list of some CLIENT is in
\* the list of its source once and in the list of its target once; a step
\* that takes it out of one of the two lists takes it out of the other too,
\* and has CLOSED it.
C29_ListsAgree ==
    /\ \A c \in Conns : \A k \in 1..Len(clients[c].inviteHead) :
          LET inv == clients[c].inviteHead[k].invitation
              h == Heap(AllWritten)
          IN  /\ invs[inv].count > 0
              /\ c \in {inv_get_source(h, inv), inv_get_target(h, inv)}
              /\ inv_get_source(h, inv) # inv_get_target(h, inv)
              /\ Holds(h, inv_get_source(h, inv), inv) = 1
              /\ Holds(h, inv_get_target(h, inv), inv) = 1
    /\ \A h \in Outcomes : \A inv \in ListedInvs :
          /\ Holds(h, invs[inv].source, inv) = Holds(h, invs[inv].target, inv)
          /\ Holds(h, invs[inv].source, inv) = 0 =>
                h.invs[inv].state = INV_CLOSED_STATE

\* C29, its case: the lists hold an OPEN invitation and one with a game in
\* progress, and the peer of a party of both has gone: the logout at hand
\* takes both out of the lists of both parties
C29_Witness ==
    \E c \in Conns :
        /\ pc[c] = "recv" /\ conn[c] = "hungup" /\ loggedIn[c] = 1
        /\ \E i1 \in ListedInvs, i2 \in ListedInvs :
              /\ invs[i1].state = INV_OPEN_STATE
              /\ InProgress(Heap(AllWritten), i2)
              /\ \E b \in Budgets({c}) :
                    /\ Holds(ServeEof(c, b).h, invs[i1].source, i1) = 0
                    /\ Holds(ServeEof(c, b).h, invs[i2].target, i2) = 0

\* the locks the operations take that the thread of connection c may run for
\* the request it reads next
LockOrders(c) ==
    LET h == Heap(AllWritten)
    IN  {client_make_invitation_locks(h, c, target) :
            target \in {t \in Conns : clients[t].player # NULL}}
        \cup UNION {{client_revoke_invitation_locks(h, c, id),
                     client_decline_invitation_locks(h, c, id),
                     client_accept_invitation_locks(h, c, id),
                     client_resign_game_locks(h, c, id),
                     client_make_move_locks(h, c, id)} : id \in Ids(c)}

\* the operation takes the lock of y while it holds the lock of x
TakenAfter(locks, x, y) ==
    Len(locks) = 2 /\ locks[1] = x /\ locks[2] = y /\ x # y

\* C30: the operations that hold two clientMutex locks at once
\* (client_make_invitation, revoke, decline, accept, resign, make_move) take
\* them in one fixed order of the CLIENTs, whichever of the two is the
\* caller: no operation takes the lock of x while holding that of y when
\* another may take the lock of y while holding that of x.
C30_OneLockOrder ==
    \A c1 \in Conns, c2 \in Conns : (Serving(c1) /\ Serving(c2)) =>
      \A l1 \in LockOrders(c1), l2 \in LockOrders(c2) :
        \A x \in Conns, y \in Conns :
          ~(TakenAfter(l1, x, y) /\ TakenAfter(l2, y, x))


\* C33: the over flag of a GAME is monotonic: once isOver is set, every
\* game_apply_move and every game_resign fails and leaves the winner, every
\* cell, the turn and the flag as they are, in whatever order the requests
\* of the two participants arrive.
C33_OverMonotonic ==
    games[1].isOver # 0 =>
        /\ \A placement \in Cells, piece \in Pieces :
              LET a == game_apply_move(games[1], [piece |-> piece,
                                                  placement |-> placement])
              IN  a.ret = -1 /\ a.game = games[1]
        /\ \A role \in {FIRST_PLAYER_ROLE, SECOND_PLAYER_ROLE} :
              LET r == game_resign(games[1], role)
              IN  r.ret = -1 /\ r.game = games[1]

\* a GAME over with a winner and an empty cell, where the move of the piece
\* whose turn it is to the empty cell fails, and the resignation of the
\* winner fails
C33_Witness ==
    /\ games[1].isOver # 0
    /\ games[1].winner = FIRST_PLAYER_ROLE
    /\ \E placement \in Cells :
          /\ games[1].game_board[placement - 1] = -1
          /\ game_apply_move(games[1], [piece |-> games[1].expectedPiece,
                                        placement |-> placement]).ret = -1
    /\ \E placement \in Cells : games[1].game_board[placement - 1] # -1
    /\ game_resign(games[1], FIRST_PLAYER_ROLE).ret = -1

\* C34: in every reachable GAME state the winner differs from NULL_ROLE if
\* and only if the board contains a line of three equal pieces, for games
\* ended by a move and for games ended by resignation alike.
C34_WinnerIffLine ==
    \A g \in 1..Len(games) :
        games[g].winner # NULL_ROLE <=> RefWinners(games[g].game_board) # {}

\* C34 as amended: a board that contains a line of three equal pieces has
\* the role of that piece as the winner, and a game that has a winner is
\* over; a successful game_apply_move leaves a winner if and only if it
\* leaves a line; a successful game_resign makes the other role the winner
\* and leaves the board as it is, with no line on it.
C34_WinnerIffLineOrResigned ==
    \A g \in 1..Len(games) :
        /\ \A p \in RefWinners(games[g].game_board) :
              games[g].winner # NULL_ROLE /\ PieceOf(games[g].winner) = p
        /\ games[g].winner # NULL_ROLE => games[g].isOver # 0
        /\ \A placement \in Cells, piece \in Pieces :
              LET a == game_apply_move(games[g], [piece |-> piece,
                                                  placement |-> placement])
              IN  a.ret = 0 =>
                    (a.game.winner # NULL_ROLE
                        <=> RefWinners(a.game.game_board) # {})
        /\ \A role \in {FIRST_PLAYER_ROLE, SECOND_PLAYER_ROLE} :
              LET r == game_resign(games[g], role)
              IN  r.ret = 0 =>
                    /\ r.game.winner = 3 - role
                    /\ r.game.game_board = games[g].game_board
                    /\ RefWinners(r.game.game_board) = {}

\* a GAME ended by resignation after some moves: it has a winner and its
\* board has no line
C34_Witness ==
    /\ games[1].isOver # 0
    /\ games[1].winner = SECOND_PLAYER_ROLE
    /\ RefWinners(games[1].game_board) = {}
    /\ Cardinality({i \in 0..8 : games[1].game_board[i] # -1}) >= 3

\* C35: every INVITATION created through an INVITE request has source_role
\* and target_role both FIRST_PLAYER_ROLE or SECOND_PLAYER_ROLE and different
\* from each other, whatever the role field of the request: 1 makes the
\* target first, 2 makes the target second, and a role field that is neither
\* makes no invitation with undefined or equal roles.
C35_RolesDefined ==
    /\ \A inv \in LiveInvs(invs) :
          /\ invs[inv].source_role \in {FIRST_PLAYER_ROLE, SECOND_PLAYER_ROLE}
          /\ invs[inv].target_role \in {FIRST_PLAYER_ROLE, SECOND_PLAYER_ROLE}
          /\ invs[inv].source_role # invs[inv].target_role
    /\ InviteRoles(1) = {<<SECOND_PLAYER_ROLE, FIRST_PLAYER_ROLE>>}
    /\ InviteRoles(2) = {<<FIRST_PLAYER_ROLE, SECOND_PLAYER_ROLE>>}

\* C39: player_post_result is called at most once for a GAME, and once when
\* the game is over and its invitation CLOSED, with the result the recorded
\* winner of the game gives (a draw if there is none): whatever a request or
\* a logout does, the ratings it leaves are those of one player_post_result
\* with that result if it closes the invitation of a game, and those it
\* found if not, also for a game that a move ended while its MOVED or ENDED
\* was not written and whose invitation RESIGN or a logout closes later.
C39_ResultPostedOnce ==
    \A h \in Outcomes : \A inv \in LiveInvs(invs) :
        LET game == invs[inv].game
            winner == game_get_winner(h.games[game])
            result == IF winner = NULL_ROLE THEN 0
                      ELSE IF winner = invs[inv].source_role THEN 1 ELSE 2
        IN  invs[inv].state = INV_ACCEPTED_STATE =>
              IF h.invs[inv].state = INV_CLOSED_STATE
              THEN /\ game_is_over(h.games[game]) # 0
                   /\ h.players =
                         player_post_result(players,
                                            clients[invs[inv].source].player,
                                            clients[invs[inv].target].player,
                                            result)
              ELSE h.players = players

\* C32: the registries are finalized only after every session thread
\* started for an accepted connection has finished: when creg_fini and
\* preg_fini have run, no thread is still to register, or serving
C32_FiniAfterThreads ==
    Finalized => \A c \in Conns : pc[c] = "exit"

\* C38: every INVITATION in the list of a CLIENT has its source and its
\* target logged in and registered, also when the target was looked up
\* before it left and the invitation was made afterwards
C38_ListedPartiesPresent ==
    \A c \in Conns : \A k \in 1..Len(clients[c].inviteHead) :
        LET inv == clients[c].inviteHead[k].invitation
        IN  \A x \in {invs[inv].source, invs[inv].target} :
               clients[x].player # NULL /\ x \in Registered

\* the heaps the steps a state of the two-step INVITE allows may leave
RaceOutcomes ==
    Outcomes \cup UNION { IF pc[c] = "invite"
                          THEN {ServeInviteFinish(c, b).h : b \in Budgets({})}
                          ELSE {} : c \in Conns }

\* C37: no CLIENT, INVITATION or GAME that can still be reached has count
\* zero: not from a slot of the registry, from the list of a CLIENT, from
\* the fields of an INVITATION, from the target a thread holds after
\* creg_lookup, nor when a request or a logout under way writes to a CLIENT
C37_ReachablePositive ==
    /\ \A c \in Registered : clients[c].count > 0
    /\ \A c \in Conns : pc[c] = "invite" => clients[work[c].target].count > 0
    /\ \A c \in Conns : \A k \in 1..Len(clients[c].inviteHead) :
          clients[c].count > 0 =>
             invs[clients[c].inviteHead[k].invitation].count > 0
    /\ \A inv \in LiveInvs(invs) :
          /\ clients[invs[inv].source].count > 0
          /\ clients[invs[inv].target].count > 0
          /\ invs[inv].game # NULL => games[invs[inv].game].count > 0
    /\ \A h \in RaceOutcomes : \A i \in 1..Len(h.out) : h.out[i].live

\* C40: the counts balance.  A live INVITATION counts 1 and 1 for each list
\* that holds it; a CLIENT counts 1 while a slot of the registry holds it, 1
\* for each live INVITATION that names it and 1 for each lookup under way;
\* and once every session has ended every CLIENT and every INVITATION has
\* been freed
C40_CountsBalance ==
    /\ \A inv \in LiveInvs(invs) :
          invs[inv].count
             = 1 + Cardinality({c \in Conns : Listed(Heap(AllWritten), c, inv)})
    /\ \A c \in Conns : pc[c] # "start" =>
          clients[c].count
             = (IF c \in Registered THEN 1 ELSE 0)
               + Cardinality({inv \in LiveInvs(invs) :
                                 invs[inv].source = c \/ invs[inv].target = c})
               + Cardinality({k \in Conns :
                                 pc[k] = "invite" /\ work[k].target = c})
    /\ (\A c \in Conns : pc[c] = "exit") =>
          /\ \A c \in Conns : clients[c].count = 0
          /\ LiveInvs(invs) = {}

\* C31: no two session threads wait for each other's clientMutex: there are
\* no two CLIENTs whose threads each hold their own lock and are to take the
\* other's, so the operations of both run to completion
C31_NoCircularWait ==
    \A a \in Conns, b \in Conns :
        ~(a # b /\ OwnLocked(a) /\ OwnLocked(b) /\ Awaits(a) = b /\ Awaits(b) = a)

\* the heaps the steps a state of the statement-by-statement session end
\* allows may leave
ReuseOutcomes ==
    UNION { IF Receives(c) THEN {a.h : a \in Answers(c)}
            ELSE IF pc[c] = "closing"
            THEN {Unregistered(ServeEof(c, b).h, c) : b \in Budgets({})}
            ELSE {} : c \in Conns }

\* C36: every write to the socket of a CLIENT is made under the clientMutex
\* of that CLIENT: a packet that client_send_packet writes while it holds
\* the lock of a CLIENT goes to the socket of that CLIENT, never to the
\* socket of the connection that has been given its descriptor since
C36_WritesUnderOwnLock ==
    \A h \in ReuseOutcomes : \A i \in 1..Len(h.out) :
        h.out[i].ok => conn[h.out[i].to] # "reused"
====
